---- MODULE Spec2Model ----
(***************************************************************************)
(* Shared daily cash ledger (per-key Gun replication variant).             *)
(* One React component per device: device detection, the sync effect with  *)
(* its subscriptions and heartbeat, the totals computation, the editor's   *)
(* add/remove handlers and the Day-End (finalizeBook).  The Gun store is   *)
(* modelled at its interface: point writes per key, and notifications that *)
(* may be delivered to every subscriber at least once, in any order.       *)
(* Amounts are whole currency units: below 2^53 JavaScript number addition *)
(* on integers is exact, so Int arithmetic is what the code computes.      *)
(***************************************************************************)
EXTENDS Integers, Sequences, FiniteSets, TLC

\* ---------------------------------------------------------------- bounds
MaxIds     == 2   \* entry ids crypto.randomUUID() can hand out
MaxTime    == 5000   \* milliseconds that elapse in a role run
PulseTime  == 13000  \* milliseconds that elapse in a heartbeat run
MaxDayEnds == 2   \* Day-End runs that reach the store in one run
SyncIds    == 2   \* entries created in a replication run
RoleIds    == 1   \* entries created in a role run
RetryIds   == 2   \* entries created in a Day-End retry run
CloseIds   == 2   \* entries created before a Day-End seen by two devices
CorruptIds == 1   \* entry ids in a run with corrupt payloads
MaxAggOut  == 2   \* out-party entries fed to the aggregation check
MaxAggMain == 2   \* main entries fed to the aggregation check
NotifyIds  == 2   \* entries created in a run about the notifications
NotifyTime == 5000   \* milliseconds that elapse in a run about the notifications
ListIds    == 4   \* entries created in a run of the whole-list variant

\* ------------------------------------------------------- types.ts enums
PaymentMethod == {"CASH", "CARD", "PAYPAL"}
DeviceType    == {"laptop", "android", "iphone"}

Replicas   == {"r1", "r2"}
Ids        == 1..MaxIds
SessionId  == "S1"

\* window.location.hash (without '#') and the navigator.userAgent classes the
\* two regular expressions of the code distinguish
Hashes     == {"", "laptop", "android", "iphone"}
UserAgents == {"desktop", "Android", "iPhone"}
\* r1 is a workstation, r2 a handheld
UserAgentsOf(r) == IF r = "r1" THEN {"desktop"} ELSE {"Android", "iPhone"}

\* values a form can submit (whole amounts)
\* what the forms submit in the runs about the aggregation: every method, zero and
\* non-zero amounts, and the entries of the worked example
AggOutSubmits  == {<<"CASH", 500>>, <<"CARD", 200>>, <<"PAYPAL", 70>>, <<"CASH", 0>>}
AggMainSubmits == {<<"", "d", "CASH", 300, 100>>, <<"", "d", "CARD", 50, 0>>,
                   <<"", "d", "PAYPAL", 20, 10>>, <<"", "d", "CASH", 0, 0>>}
Openings       == {0, 1000, -100}

\* what the forms submit in the ledger runs: (method, amount) and
\* (roomNo, description, method, cashIn, cashOut)
OutSubmits  == {<<"CASH", 2>>}
MainSubmits == {<<"", "d", "CARD", 3, 1>>}
\* what fetchExchangeRates resolves to: the fallback, or rounded-up rates
RateSet     == {[usd |-> 310, eur |-> 335], [usd |-> 312, eur |-> 340]}
DefaultRates == [usd |-> 310, eur |-> 335]

\* ------------------------------------------------ values held by the store
Undefined == [t |-> "undefined"]
Null      == [t |-> "null"]

\* JSON.stringify / JSON.parse: the textual payload is not the object
JSONstringify(x) == [t |-> "string", json |-> x]
JSONparse(s)     == s.json
\* Number.prototype.toString / parseFloat on that text
toString(n)      == [t |-> "string", num |-> n]
parseFloat(s)    == s.num
\* a number put as such (Date.now())
Number(n)        == [t |-> "number", num |-> n]

\* new Date().toLocaleDateString() at clock value t (milliseconds)
DayMs == 86400000
toLocaleDateString(t) == [day |-> t \div DayMs]

\* the delays of setInterval and setTimeout in the sync effect
PulseEvery == 5000
DecayAfter == 5500

VARIABLES
  hash, userAgent,        \* per device: URL hash and user-agent class
  device, syncId, isReady,
  mounted,                \* per device: the effects of the first commit have run
  subscription,           \* per device: 0, or the number of the sync effect run
                          \* whose subscriptions are live
  pulseTimer,             \* per device: when the setInterval callback is due
  timeouts,               \* per device: the pending setTimeout callbacks
  peerActive, lastPulse,  \* the flag, and when a pulse was observed last
  openingBalance, outPartyMap, mainEntryMap, historyList, rates,
  gun,                    \* the store: current value of every key
  sent,                   \* every notification the store has to deliver
  lastDelivered,          \* per device and key: the notification delivered last
  seen,                   \* per device: notifications delivered at least once
  lastOp,                 \* the last handler/timer call and the writes it emitted
  nextId, now, dayEnds,
  dayEnd,                 \* bookkeeping of a Day-End and its re-run
  aggOut, aggMain, aggOpen,  \* inputs of the aggregation check
  wlDevice,               \* whole-list variant: the device of the component
  wlOutPartyEntries,      \* whole-list variant: the out-party array
  wlStore,                \* whole-list variant: the persisted out-party array
  wlNextId                \* whole-list variant: ids handed out so far

timerVars  == <<mounted, subscription, pulseTimer, timeouts, peerActive,
                lastPulse>>
ledgerVars == <<hash, userAgent, device, syncId, isReady, timerVars,
                openingBalance, outPartyMap, mainEntryMap, historyList, rates,
                gun, sent, lastDelivered, seen, lastOp, nextId, now, dayEnds,
                dayEnd>>
aggVars    == <<aggOut, aggMain, aggOpen>>
listVars   == <<wlDevice, wlOutPartyEntries, wlStore, wlNextId>>
vars       == <<ledgerVars, aggVars, listVars>>

\* ------------------------------------- Record<string, Entry> as a JS object
\* A map is the sequence of its [key, val] pairs in insertion order, which is
\* the order Object.values returns.
Keys(m)      == {m[i].key : i \in DOMAIN m}
Has(m, k)    == k \in Keys(m)
Get(m, k)    == (CHOOSE p \in {m[i] : i \in DOMAIN m} : p.key = k).val
\* ({ ...p, [id]: v }): an existing key keeps its place, a new one is appended
\* a faulty upsert that appends without looking for the key
SpreadAppend(m, k, v) == Append(m, [key |-> k, val |-> v])
Spread(m, k, v) ==
  IF Has(m, k)
    THEN [i \in DOMAIN m |-> IF m[i].key = k THEN [key |-> k, val |-> v] ELSE m[i]]
    ELSE Append(m, [key |-> k, val |-> v])
\* a faulty delete by position: an absent key takes the last entry away
DeleteSplice(m, k) ==
  IF k \in Keys(m) THEN SelectSeq(m, LAMBDA p : p.key # k)
  ELSE SubSeq(m, 1, Len(m) - 1)
\* (const n = { ...p }; delete n[id]; return n)
Delete(m, k) == SelectSeq(m, LAMBDA p : p.key # k)
\* Object.values(m)
ObjectValues(m) == [i \in DOMAIN m |-> m[i].val]

\* Array.prototype.sort((a, b) => a.index - b.index): stable
RECURSIVE SortByIndex(_)
InsertByIndex(s, e) ==
  LET before == SelectSeq(s, LAMBDA x : x.index <= e.index)
      after  == SelectSeq(s, LAMBDA x : x.index > e.index)
  IN  before \o <<e>> \o after
SortByIndex(s) ==
  IF s = <<>> THEN <<>>
  ELSE InsertByIndex(SortByIndex(SubSeq(s, 1, Len(s) - 1)), s[Len(s)])

\* ----------------------------------------------------------- aggregation
\* (x || 0)
OrZero(x) == IF x = 0 THEN 0 ELSE x

\* a faulty reduce that assigns instead of adding: the last term wins
RECURSIVE ReduceLastWins(_, _, _)
ReduceLastWins(s, f, acc) ==
  IF s = <<>> THEN acc
  ELSE ReduceLastWins(Tail(s), f, OrZero(Head(s)[f]))

\* arr.reduce((s, e) => s + (e.amount || 0), 0), left to right
RECURSIVE ReduceFrom(_, _, _)
ReduceFrom(s, f, acc) ==
  IF s = <<>> THEN acc
  ELSE ReduceFrom(Tail(s), f, acc + OrZero(Head(s)[f]))
SumField(s, f) == ReduceFrom(s, f, 0)

\* arr.filter(e => e.method === m)
FilterMethod(s, m) == SelectSeq(s, LAMBDA e : e.method = m)

\* the useMemo bodies: derived arrays and totals
outPartyEntriesOf(opm) == SortByIndex(ObjectValues(opm))
mainEntriesOf(mem)     == ObjectValues(mem)

\* faulty totals that subtract the card and PayPal transfers from the cash out
totalsOfSignFlip(ope, me, ob) ==
  LET opCash    == SumField(FilterMethod(ope, "CASH"), "amount")
      opCard    == SumField(FilterMethod(ope, "CARD"), "amount")
      opPaypal  == SumField(FilterMethod(ope, "PAYPAL"), "amount")
      totalCard   == opCard + SumField(FilterMethod(me, "CARD"), "cashIn")
      totalPaypal == opPaypal + SumField(FilterMethod(me, "PAYPAL"), "cashIn")
      totalCashIn  == ob + SumField(me, "cashIn") + opCash + opCard + opPaypal
      totalCashOut == SumField(me, "cashOut") - totalCard - totalPaypal
  IN  [opCash |-> opCash, opCard |-> opCard, opPaypal |-> opPaypal,
       totalCard |-> totalCard, totalPaypal |-> totalPaypal,
       totalCashIn |-> totalCashIn, totalCashOut |-> totalCashOut,
       balance |-> totalCashIn - totalCashOut]

\* faulty totals that leave the PayPal transfer out of totalCashOut
totalsOfNoPaypalOut(ope, me, ob) ==
  LET opCash    == SumField(FilterMethod(ope, "CASH"), "amount")
      opCard    == SumField(FilterMethod(ope, "CARD"), "amount")
      opPaypal  == SumField(FilterMethod(ope, "PAYPAL"), "amount")
      totalCard   == opCard + SumField(FilterMethod(me, "CARD"), "cashIn")
      totalPaypal == opPaypal + SumField(FilterMethod(me, "PAYPAL"), "cashIn")
      totalCashIn  == ob + SumField(me, "cashIn") + opCash + opCard + opPaypal
      totalCashOut == SumField(me, "cashOut") + totalCard
  IN  [opCash |-> opCash, opCard |-> opCard, opPaypal |-> opPaypal,
       totalCard |-> totalCard, totalPaypal |-> totalPaypal,
       totalCashIn |-> totalCashIn, totalCashOut |-> totalCashOut,
       balance |-> totalCashIn - totalCashOut]

\* faulty totals that leave the out-party card amount out of totalCashIn
totalsOfNoCardIn(ope, me, ob) ==
  LET opCash    == SumField(FilterMethod(ope, "CASH"), "amount")
      opCard    == SumField(FilterMethod(ope, "CARD"), "amount")
      opPaypal  == SumField(FilterMethod(ope, "PAYPAL"), "amount")
      totalCard   == opCard + SumField(FilterMethod(me, "CARD"), "cashIn")
      totalPaypal == opPaypal + SumField(FilterMethod(me, "PAYPAL"), "cashIn")
      totalCashIn  == ob + SumField(me, "cashIn") + opCash + opPaypal
      totalCashOut == SumField(me, "cashOut") + totalCard + totalPaypal
  IN  [opCash |-> opCash, opCard |-> opCard, opPaypal |-> opPaypal,
       totalCard |-> totalCard, totalPaypal |-> totalPaypal,
       totalCashIn |-> totalCashIn, totalCashOut |-> totalCashOut,
       balance |-> totalCashIn - totalCashOut]

totalsOf(ope, me, ob) ==
  LET opCash    == SumField(FilterMethod(ope, "CASH"), "amount")
      opCard    == SumField(FilterMethod(ope, "CARD"), "amount")
      opPaypal  == SumField(FilterMethod(ope, "PAYPAL"), "amount")
      mCashIn   == SumField(me, "cashIn")
      mCashOut  == SumField(me, "cashOut")
      mCardIn   == SumField(FilterMethod(me, "CARD"), "cashIn")
      mPaypalIn == SumField(FilterMethod(me, "PAYPAL"), "cashIn")
      totalCard   == opCard + mCardIn
      totalPaypal == opPaypal + mPaypalIn
      totalCashIn  == ob + mCashIn + opCash + opCard + opPaypal
      totalCashOut == mCashOut + totalCard + totalPaypal
  IN  [opCash |-> opCash, opCard |-> opCard, opPaypal |-> opPaypal,
       totalCard |-> totalCard, totalPaypal |-> totalPaypal,
       totalCashIn |-> totalCashIn, totalCashOut |-> totalCashOut,
       balance |-> totalCashIn - totalCashOut]

outPartyEntries(r) == outPartyEntriesOf(outPartyMap[r])
mainEntries(r)     == mainEntriesOf(mainEntryMap[r])
\* faulty totals that start from zero instead of the opening balance
totalsFromZero(r) == totalsOf(outPartyEntries(r), mainEntries(r), 0)
totals(r)          == totalsOf(outPartyEntries(r), mainEntries(r), openingBalance[r])

\* ------------------------------------------------------------ the store
CollKeys   == [c : {"outParty", "main"}, id : Ids]
BalanceKey == [c |-> "balance", id |-> 0]
HistoryKey == [c |-> "history", id |-> 0]
PulseKey   == [c |-> "pulse", id |-> 0]
StoreKeys  == CollKeys \cup {BalanceKey, HistoryKey, PulseKey}

\* db.get(...).put(value): one point write, and the notification it causes
Put(k, v) == [key |-> k, val |-> v]

GunPut(g, w) == [g EXCEPT ![w.key] = w.val]

RECURSIVE GunPutAll(_, _)
GunPutAll(g, ws) ==
  IF ws = <<>> THEN g ELSE GunPutAll(GunPut(g, Head(ws)), Tail(ws))

Range(s) == {s[i] : i \in DOMAIN s}

\* ------------------------------------------------------ device detection
Handheld(ua) == ua \in {"Android", "iPhone"}

detectDevice(h, ua) ==
  IF h \in DeviceType THEN h
  ELSE IF ua = "Android" THEN "android"
  ELSE IF ua = "iPhone" THEN "iphone"
  ELSE "laptop"

\* a faulty role test that lets every declared device edit
isEditorAnyDevice(r) == device[r] \in DeviceType
isEditor(r) == device[r] = "laptop"

\* "Security Check": the restricted screen replaces the whole interface
AccessDenied(r) == isReady[r] /\ device[r] = "laptop" /\ Handheld(userAgent[r])

\* the component renders an interface whose elements can call the handlers
Interactive(r) == isReady[r] /\ ~AccessDenied(r)

\* the sync effect has run for a session: subscriptions and timer are live
Subscribed(r) == subscription[r] # 0

\* ------------------------------------------------------------ bookkeeping
\* kind: "edit" for a call of one of the four add/remove handlers, "dayEnd"
\* for finalizeBook (confirmed: what confirm() returned), "timer" for the
\* heartbeat
NoOp == [kind |-> "none", by |-> "none", dev |-> "none", denied |-> FALSE,
         confirmed |-> FALSE, writes |-> <<>>]
Op(kind, r, ok, ws) == [kind |-> kind, by |-> r, dev |-> device[r],
                        denied |-> AccessDenied(r), confirmed |-> ok,
                        writes |-> ws]

Idle == [phase |-> "idle", first |-> "none", cuts |-> {}, synced |-> FALSE,
         expBalance |-> 0, expRecord |-> Null, expHistory |-> <<>>]

NoneDelivered == [k \in CollKeys |-> Undefined]

\* no callback is scheduled / no pulse has been observed
NoTimer == -1

\* ------------------------------------------------------------------ Init
InitLedger ==
  /\ hash \in [Replicas -> Hashes]
  /\ userAgent \in [Replicas -> UserAgents]
  /\ \A r \in Replicas : userAgent[r] \in UserAgentsOf(r)
  /\ syncId \in [Replicas -> {"", SessionId}]
  /\ device = [r \in Replicas |-> "laptop"]
  /\ isReady = [r \in Replicas |-> FALSE]
  /\ mounted = [r \in Replicas |-> FALSE]
  /\ subscription = [r \in Replicas |-> 0]
  /\ pulseTimer = [r \in Replicas |-> NoTimer]
  /\ timeouts = [r \in Replicas |-> {}]
  /\ peerActive = [r \in Replicas |-> FALSE]
  /\ lastPulse = [r \in Replicas |-> NoTimer]
  /\ openingBalance = [r \in Replicas |-> 0]
  /\ outPartyMap = [r \in Replicas |-> <<>>]
  /\ mainEntryMap = [r \in Replicas |-> <<>>]
  /\ historyList = [r \in Replicas |-> <<>>]
  /\ rates = [r \in Replicas |-> DefaultRates]
  /\ gun = [k \in StoreKeys |-> Undefined]
  /\ sent = {}
  /\ lastDelivered = [r \in Replicas |-> NoneDelivered]
  /\ seen = [r \in Replicas |-> {}]
  /\ lastOp = NoOp
  /\ nextId = 1
  /\ now = 0
  /\ dayEnds = 0
  /\ dayEnd = Idle

\* the whole-list variant after construction: LAPTOP, empty array, nothing
\* persisted
InitWholeList ==
  /\ wlDevice = "laptop"
  /\ wlOutPartyEntries = <<>>
  /\ wlStore = Undefined
  /\ wlNextId = 1

Init ==
  /\ InitLedger
  /\ aggOut = <<>>
  /\ aggMain = <<>>
  /\ aggOpen = 0
  /\ InitWholeList

\* the writes of one handler reach the store in order; each is notified
Emit(kind, r, ok, ws) ==
  /\ gun' = GunPutAll(gun, ws)
  /\ sent' = sent \cup Range(ws)
  /\ lastOp' = Op(kind, r, ok, ws)

\* a handler that returned early
Returned(kind, r, ok) ==
  /\ lastOp' = Op(kind, r, ok, <<>>)
  /\ UNCHANGED <<gun, sent, nextId, dayEnds, dayEnd>>

local == <<openingBalance, outPartyMap, mainEntryMap, historyList, rates,
           lastDelivered, seen>>
env   == <<hash, userAgent>>

\* ------------------------------------------- mount: the two first effects
\* the body of the sync effect: a new interval timer and new subscriptions
\* (the cleanup of the run before it, db.off() and clearInterval, has taken
\* the old ones away; it clears no setTimeout)
syncEffect(r) ==
  /\ pulseTimer' = [pulseTimer EXCEPT ![r] = now + PulseEvery]
  /\ subscription' = [subscription EXCEPT ![r] = @ + 1]

\* the first commit: the detection effect schedules setDevice and setIsReady,
\* then the sync effect runs with the initial device (LAPTOP)
Mount(r) ==
  /\ ~mounted[r]
  /\ mounted' = [mounted EXCEPT ![r] = TRUE]
  /\ IF syncId[r] # "" THEN syncEffect(r)
     ELSE UNCHANGED <<pulseTimer, subscription>>
  /\ UNCHANGED <<env, device, isReady, timeouts, peerActive, lastPulse, syncId,
                 openingBalance, outPartyMap, mainEntryMap,
                 historyList, rates, gun, sent, lastDelivered, seen, lastOp,
                 nextId, now, dayEnds, dayEnd, aggVars, listVars>>

\* the render that follows: device and isReady take their values, and the
\* sync effect, which depends on [syncId, device], runs again when the device
\* has changed
setDevice(r) ==
  /\ mounted[r] /\ ~isReady[r]
  /\ device' = [device EXCEPT ![r] = detectDevice(hash[r], userAgent[r])]
  /\ isReady' = [isReady EXCEPT ![r] = TRUE]
  /\ IF syncId[r] # "" /\ detectDevice(hash[r], userAgent[r]) # device[r]
       THEN syncEffect(r)
       ELSE UNCHANGED <<pulseTimer, subscription>>
  /\ UNCHANGED <<env, mounted, timeouts, peerActive, lastPulse, syncId,
                 openingBalance, outPartyMap, mainEntryMap,
                 historyList, rates, gun, sent, lastDelivered, seen, lastOp,
                 nextId, now, dayEnds, dayEnd, aggVars, listVars>>

\* fetchExchangeRates().then(setRates): the promise of the mount resolves once
setRates(r, rt) ==
  /\ isReady[r]
  /\ rates[r] = DefaultRates
  /\ rates' = [rates EXCEPT ![r] = rt]
  /\ UNCHANGED <<env, timerVars, device, syncId, isReady, openingBalance, outPartyMap,
                 mainEntryMap, historyList, gun, sent, lastDelivered, seen,
                 lastOp, nextId, now, dayEnds, dayEnd, aggVars, listVars>>

\* AuthGate onConnect: the session id is set and the sync effect runs
onConnect(r) ==
  /\ Interactive(r)
  /\ syncId[r] = ""
  /\ syncId' = [syncId EXCEPT ![r] = SessionId]
  /\ syncEffect(r)
  /\ UNCHANGED <<env, mounted, timeouts, peerActive, lastPulse, device, isReady,
                 local, gun, sent, lastOp, nextId, now, dayEnds, dayEnd, aggVars, listVars>>

\* ------------------------------------------------------------ the clock
\* Time passes up to the next callback that is due, never beyond it; a
\* render that has been scheduled happens before time passes.
Advance(t) ==
  /\ t > now
  /\ \A r \in Replicas :
        /\ mounted[r] => isReady[r]
        /\ pulseTimer[r] # NoTimer => t <= pulseTimer[r]
        /\ \A d \in timeouts[r] : t <= d.due
  /\ now' = t
  /\ UNCHANGED <<env, timerVars, device, syncId, isReady, local, gun, sent,
                 lastOp, nextId, dayEnds, dayEnd, aggVars, listVars>>

\* the callbacks that are due next
Dues == {pulseTimer[r] : r \in Replicas} \cup
        UNION {{d.due : d \in timeouts[r]} : r \in Replicas}
NextDue == {t \in Dues : t > now /\ \A u \in Dues : u > now => t <= u}

\* ------------------------------------------------- heartbeat (setInterval)
\* a faulty heartbeat that does not test the device
pulseIntervalAnyDevice(r) ==
  /\ pulseTimer[r] = now
  /\ pulseTimer' = [pulseTimer EXCEPT ![r] = now + PulseEvery]
  /\ Emit("timer", r, FALSE, <<Put(PulseKey, Number(now))>>)
  /\ UNCHANGED <<env, mounted, subscription, timeouts, peerActive, lastPulse,
                 device, syncId, isReady, local, nextId, now, dayEnds, dayEnd,
                 aggVars, listVars>>

\* a faulty heartbeat that puts its timestamp under the balance key
pulseIntervalBalanceKey(r) ==
  /\ pulseTimer[r] = now
  /\ pulseTimer' = [pulseTimer EXCEPT ![r] = now + PulseEvery]
  /\ IF device[r] = "laptop"
       THEN Emit("timer", r, FALSE, <<Put(BalanceKey, Number(now))>>)
       ELSE /\ lastOp' = Op("timer", r, FALSE, <<>>)
            /\ UNCHANGED <<gun, sent>>
  /\ UNCHANGED <<env, mounted, subscription, timeouts, peerActive, lastPulse,
                 device, syncId, isReady, local, nextId, now, dayEnds, dayEnd,
                 aggVars, listVars>>

\* the callback tests the device of the effect run that created it, which is
\* the current device: the effect runs again whenever the device changes
pulseInterval(r) ==
  /\ pulseTimer[r] = now
  /\ pulseTimer' = [pulseTimer EXCEPT ![r] = now + PulseEvery]
  /\ IF device[r] = "laptop"
       THEN Emit("timer", r, FALSE, <<Put(PulseKey, Number(now))>>)
       ELSE /\ lastOp' = Op("timer", r, FALSE, <<>>)
            /\ UNCHANGED <<gun, sent>>
  /\ UNCHANGED <<env, mounted, subscription, timeouts, peerActive, lastPulse,
                 device, syncId, isReady, local, nextId, now, dayEnds, dayEnd,
                 aggVars, listVars>>

\* the setTimeout callback of the pulse handler
decay(r, d) ==
  /\ d \in timeouts[r]
  /\ d.due = now
  /\ timeouts' = [timeouts EXCEPT ![r] = @ \ {d}]
  /\ peerActive' = [peerActive EXCEPT ![r] = FALSE]
  /\ UNCHANGED <<env, mounted, subscription, pulseTimer, lastPulse, device,
                 syncId, isReady, local, gun, sent, lastOp, nextId, now,
                 dayEnds, dayEnd, aggVars, listVars>>

\* ------------------------------------------------ subscription handlers
\* a faulty pulse handler that starts no timeout
onPulseNoTimeout(r) ==
  /\ peerActive' = [peerActive EXCEPT ![r] = TRUE]
  /\ lastPulse' = [lastPulse EXCEPT ![r] = now]
  /\ UNCHANGED timeouts

\* the pulse handler: the flag is set and a timeout is started; the timeout
\* is noted with the effect run whose subscription started it
onPulse(r) ==
  /\ peerActive' = [peerActive EXCEPT ![r] = TRUE]
  /\ timeouts' = [timeouts EXCEPT ![r] =
                    @ \cup {[due |-> now + DecayAfter, sub |-> subscription[r]]}]
  /\ lastPulse' = [lastPulse EXCEPT ![r] = now]

onBalance(r, v) ==
  IF v # Undefined
    THEN openingBalance' = [openingBalance EXCEPT ![r] = parseFloat(v)]
    ELSE UNCHANGED openingBalance

\* a faulty handler that empties the collection at a tombstone
onEntryClearAll(m, data, id) ==
  IF data = Null THEN <<>> ELSE Spread(m, id, JSONparse(data))

\* a faulty handler that ignores tombstones
onEntryKeep(m, data, id) ==
  IF data = Null THEN m ELSE Spread(m, id, JSONparse(data))

\* the map().on handler of one collection
onEntry(m, data, id) ==
  IF data = Null THEN Delete(m, id) ELSE Spread(m, id, JSONparse(data))

onHistory(r, data) ==
  IF data \notin {Undefined, Null}
    THEN historyList' = [historyList EXCEPT ![r] = JSONparse(data)]
    ELSE UNCHANGED historyList

Deliver(r, n) ==
  /\ Subscribed(r)
  /\ n \in sent
  /\ CASE n.key.c = "balance" ->
            onBalance(r, n.val) /\ UNCHANGED <<outPartyMap, mainEntryMap, historyList>>
       [] n.key.c = "outParty" ->
            /\ outPartyMap' = [outPartyMap EXCEPT ![r] = onEntry(@, n.val, n.key.id)]
            /\ UNCHANGED <<openingBalance, mainEntryMap, historyList>>
       [] n.key.c = "main" ->
            /\ mainEntryMap' = [mainEntryMap EXCEPT ![r] = onEntry(@, n.val, n.key.id)]
            /\ UNCHANGED <<openingBalance, outPartyMap, historyList>>
       [] n.key.c = "history" ->
            onHistory(r, n.val) /\ UNCHANGED <<openingBalance, outPartyMap, mainEntryMap>>
       [] n.key.c = "pulse" ->
            UNCHANGED <<openingBalance, outPartyMap, mainEntryMap, historyList>>
  /\ IF n.key.c = "pulse" THEN onPulse(r)
     ELSE UNCHANGED <<timeouts, peerActive, lastPulse>>
  /\ IF n.key \in CollKeys
       THEN /\ lastDelivered' = [lastDelivered EXCEPT ![r][n.key] = n.val]
            /\ seen' = [seen EXCEPT ![r] = @ \cup {n}]
       ELSE UNCHANGED <<lastDelivered, seen>>
  /\ UNCHANGED <<env, mounted, subscription, pulseTimer, device, syncId,
                 isReady, rates, gun, sent, lastOp, nextId, now, dayEnds,
                 dayEnd, aggVars, listVars>>

\* ------------------------------------------------------ editor handlers
\* what every handler leaves alone: it writes to the store and nothing else
handlerFrame == <<env, timerVars, device, syncId, isReady, now, aggVars, listVars>>

\* a faulty handler that does not test the session id
addOutPartyNoSession(r, method, amount) ==
  /\ Interactive(r)
  /\ IF ~isEditor(r)
       THEN Returned("edit", r, FALSE)
       ELSE /\ LET id    == nextId
                   entry == [id |-> id, index |-> Len(outPartyEntries(r)) + 1,
                             method |-> method, amount |-> amount]
               IN  Emit("edit", r, FALSE,
                        <<Put([c |-> "outParty", id |-> id], JSONstringify(entry))>>)
            /\ nextId' = nextId + 1
            /\ dayEnd' = Idle
            /\ UNCHANGED dayEnds
  /\ UNCHANGED <<handlerFrame, local>>

\* a faulty handler that numbers an entry by the ids handed out so far
addOutPartyIndexById(r, method, amount) ==
  /\ Interactive(r)
  /\ IF ~isEditor(r) \/ syncId[r] = ""
       THEN Returned("edit", r, FALSE)
       ELSE /\ LET id    == nextId
                   entry == [id |-> id, index |-> nextId,
                             method |-> method, amount |-> amount]
               IN  Emit("edit", r, FALSE,
                        <<Put([c |-> "outParty", id |-> id], JSONstringify(entry))>>)
            /\ nextId' = nextId + 1
            /\ dayEnd' = Idle
            /\ UNCHANGED dayEnds
  /\ UNCHANGED <<handlerFrame, local>>

addOutParty(r, method, amount) ==
  /\ Interactive(r)
  /\ IF ~isEditor(r) \/ syncId[r] = ""
       THEN Returned("edit", r, FALSE)
       ELSE /\ LET id    == nextId
                   entry == [id |-> id, index |-> Len(outPartyEntries(r)) + 1,
                             method |-> method, amount |-> amount]
               IN  Emit("edit", r, FALSE,
                        <<Put([c |-> "outParty", id |-> id], JSONstringify(entry))>>)
            /\ nextId' = nextId + 1
            /\ dayEnd' = Idle
            /\ UNCHANGED dayEnds
  /\ UNCHANGED <<handlerFrame, local>>

\* a faulty handler that also takes the entry out of the local collection
removeOutPartyOptimistic(r, id) ==
  /\ Interactive(r)
  /\ IF ~isEditor(r) \/ syncId[r] = ""
       THEN Returned("edit", r, FALSE) /\ UNCHANGED outPartyMap
       ELSE /\ Emit("edit", r, FALSE, <<Put([c |-> "outParty", id |-> id], Null)>>)
            /\ outPartyMap' = [outPartyMap EXCEPT ![r] = Delete(@, id)]
            /\ dayEnd' = Idle
            /\ UNCHANGED <<nextId, dayEnds>>
  /\ UNCHANGED <<handlerFrame, openingBalance, mainEntryMap, historyList, rates,
                 lastDelivered, seen>>

removeOutParty(r, id) ==
  /\ Interactive(r)
  /\ IF ~isEditor(r) \/ syncId[r] = ""
       THEN Returned("edit", r, FALSE)
       ELSE /\ Emit("edit", r, FALSE, <<Put([c |-> "outParty", id |-> id], Null)>>)
            /\ dayEnd' = Idle
            /\ UNCHANGED <<nextId, dayEnds>>
  /\ UNCHANGED <<handlerFrame, local>>

\* a faulty handler that leaves the id of the entry unset
addMainEntryNoId(r, roomNo, description, method, cashIn, cashOut) ==
  /\ Interactive(r)
  /\ IF ~isEditor(r) \/ syncId[r] = ""
       THEN Returned("edit", r, FALSE)
       ELSE /\ LET id    == nextId
                   entry == [id |-> 0, roomNo |-> roomNo,
                             description |-> description, method |-> method,
                             cashIn |-> cashIn, cashOut |-> cashOut]
               IN  Emit("edit", r, FALSE,
                        <<Put([c |-> "main", id |-> id], JSONstringify(entry))>>)
            /\ nextId' = nextId + 1
            /\ dayEnd' = Idle
            /\ UNCHANGED dayEnds
  /\ UNCHANGED <<handlerFrame, local>>

addMainEntry(r, roomNo, description, method, cashIn, cashOut) ==
  /\ Interactive(r)
  /\ IF ~isEditor(r) \/ syncId[r] = ""
       THEN Returned("edit", r, FALSE)
       ELSE /\ LET id    == nextId
                   entry == [id |-> id, roomNo |-> roomNo,
                             description |-> description, method |-> method,
                             cashIn |-> cashIn, cashOut |-> cashOut]
               IN  Emit("edit", r, FALSE,
                        <<Put([c |-> "main", id |-> id], JSONstringify(entry))>>)
            /\ nextId' = nextId + 1
            /\ dayEnd' = Idle
            /\ UNCHANGED dayEnds
  /\ UNCHANGED <<handlerFrame, local>>

removeMainEntry(r, id) ==
  /\ Interactive(r)
  /\ IF ~isEditor(r) \/ syncId[r] = ""
       THEN Returned("edit", r, FALSE)
       ELSE /\ Emit("edit", r, FALSE, <<Put([c |-> "main", id |-> id], Null)>>)
            /\ dayEnd' = Idle
            /\ UNCHANGED <<nextId, dayEnds>>
  /\ UNCHANGED <<handlerFrame, local>>

\* ----------------------------------------------------------------- Day-End
\* a faulty record whose snapshot omits the opening balance
dayRecordNoOpening(r) ==
  [date |-> toLocaleDateString(now),
   finalBalance |-> totals(r).balance,
   record |-> [date |-> toLocaleDateString(now),
               openingBalance |-> 0,
               outPartyEntries |-> outPartyEntries(r),
               mainEntries |-> mainEntries(r),
               rates |-> rates[r]]]

\* the HistoryRecord finalizeBook builds from the state it is called in
dayRecord(r) ==
  [date |-> toLocaleDateString(now),
   finalBalance |-> totals(r).balance,
   record |-> [date |-> toLocaleDateString(now),
               openingBalance |-> openingBalance[r],
               outPartyEntries |-> outPartyEntries(r),
               mainEntries |-> mainEntries(r),
               rates |-> rates[r]]]

\* the puts of finalizeBook, in program order
\* a faulty clearing that forgets the main entries
tombstonesOutOnly(r) ==
  [i \in 1..Len(outPartyEntries(r)) |->
      Put([c |-> "outParty", id |-> outPartyEntries(r)[i].id], Null)]
tombstones(r) ==
  [i \in 1..Len(outPartyEntries(r)) |->
      Put([c |-> "outParty", id |-> outPartyEntries(r)[i].id], Null)]
  \o [i \in 1..Len(mainEntries(r)) |->
      Put([c |-> "main", id |-> mainEntries(r)[i].id], Null)]
\* a faulty balance write that carries the old opening balance forward
balancePutOpening(r) == <<Put(BalanceKey, toString(openingBalance[r]))>>
balancePut(r) == <<Put(BalanceKey, toString(totals(r).balance))>>
historyPut(r) == <<Put(HistoryKey, JSONstringify(<<dayRecord(r)>> \o historyList[r]))>>

\* a faulty Day-End that advances the balance before it clears the entries
finalizeWritesBalanceFirst(r) == balancePut(r) \o tombstones(r) \o historyPut(r)
finalizeWrites(r) == tombstones(r) \o balancePut(r) \o historyPut(r)

\* the process dies inside the handler (after step 3, or after step 4): the
\* puts made so far stay, and the page starts again from its initial state
Crashes == {"none", "tombstones", "balance"}
writesUntil(r, crash) ==
  CASE crash = "none"       -> finalizeWrites(r)
    [] crash = "tombstones" -> tombstones(r)
    [] crash = "balance"    -> tombstones(r) \o balancePut(r)

Reload(r) ==
  /\ device' = [device EXCEPT ![r] = "laptop"]
  /\ isReady' = [isReady EXCEPT ![r] = FALSE]
  /\ mounted' = [mounted EXCEPT ![r] = FALSE]
  /\ subscription' = [subscription EXCEPT ![r] = 0]
  /\ pulseTimer' = [pulseTimer EXCEPT ![r] = NoTimer]
  /\ timeouts' = [timeouts EXCEPT ![r] = {}]
  /\ peerActive' = [peerActive EXCEPT ![r] = FALSE]
  /\ lastPulse' = [lastPulse EXCEPT ![r] = NoTimer]
  /\ openingBalance' = [openingBalance EXCEPT ![r] = 0]
  /\ outPartyMap' = [outPartyMap EXCEPT ![r] = <<>>]
  /\ mainEntryMap' = [mainEntryMap EXCEPT ![r] = <<>>]
  /\ historyList' = [historyList EXCEPT ![r] = <<>>]
  /\ rates' = [rates EXCEPT ![r] = DefaultRates]
  /\ lastDelivered' = [lastDelivered EXCEPT ![r] = NoneDelivered]
  /\ seen' = [seen EXCEPT ![r] = {}]

\* the device has caught up: its local state is what the store holds now
InSync(r) ==
  /\ isReady[r]
  /\ \A k \in CollKeys :
        LET m == IF k.c = "outParty" THEN outPartyMap[r] ELSE mainEntryMap[r]
        IN  IF gun[k] \in {Undefined, Null} THEN ~Has(m, k.id)
            ELSE Has(m, k.id) /\ Get(m, k.id) = JSONparse(gun[k])
  /\ openingBalance[r] = IF gun[BalanceKey] = Undefined THEN 0
                         ELSE parseFloat(gun[BalanceKey])
  /\ historyList[r] = IF gun[HistoryKey] = Undefined THEN <<>>
                      ELSE JSONparse(gun[HistoryKey])

\* bookkeeping: the first run since the last edit fixes what a single
\* uninterrupted run writes; later runs are re-runs of it, and it is noted
\* whether the device had caught up with the store, and had the rates of the
\* first run, when it re-ran
trackDayEnd(r, crash) ==
  IF dayEnd.phase = "idle"
    THEN [phase |-> IF crash = "none" THEN "complete" ELSE "partial",
          first |-> "none",
          cuts |-> IF crash = "none" THEN {} ELSE {crash},
          synced |-> InSync(r),
          expBalance |-> totals(r).balance,
          expRecord |-> dayRecord(r),
          expHistory |-> <<dayRecord(r)>> \o historyList[r]]
    ELSE IF crash = "none"
      THEN [dayEnd EXCEPT !.phase = "rerun",
                          !.synced = InSync(r) /\ rates[r] = dayEnd.expRecord.record.rates,
                          !.first = IF dayEnd.phase = "rerun" THEN @ ELSE dayEnd.phase]
      ELSE [dayEnd EXCEPT !.cuts = @ \cup {crash}]

\* a faulty Day-End that does not ask for confirmation
finalizeBookNoGate(r, confirmed, crash) ==
  /\ Interactive(r)
  /\ IF ~isEditor(r) \/ syncId[r] = ""
       THEN /\ ~confirmed /\ crash = "none"
            /\ Returned("dayEnd", r, FALSE)
            /\ UNCHANGED <<device, isReady, local, timerVars>>
       ELSE /\ Emit("dayEnd", r, confirmed, writesUntil(r, crash))
            /\ dayEnds' = dayEnds + 1
            /\ dayEnd' = trackDayEnd(r, crash)
            /\ IF crash = "none"
                 THEN UNCHANGED <<device, isReady, local, timerVars>>
                 ELSE Reload(r)
            /\ UNCHANGED nextId
  /\ UNCHANGED <<env, syncId, now, aggVars, listVars>>

finalizeBook(r, confirmed, crash) ==
  /\ Interactive(r)
  /\ IF ~isEditor(r) \/ syncId[r] = ""
       THEN /\ ~confirmed /\ crash = "none"
            /\ Returned("dayEnd", r, FALSE)
            /\ UNCHANGED <<device, isReady, local, timerVars>>
       ELSE IF ~confirmed
         THEN /\ crash = "none"
              /\ Returned("dayEnd", r, confirmed)
              /\ UNCHANGED <<device, isReady, local, timerVars>>
         ELSE /\ Emit("dayEnd", r, confirmed, writesUntil(r, crash))
              /\ dayEnds' = dayEnds + 1
              /\ dayEnd' = trackDayEnd(r, crash)
              /\ IF crash = "none"
                   THEN UNCHANGED <<device, isReady, local, timerVars>>
                   ELSE Reload(r)
              /\ UNCHANGED nextId
  /\ UNCHANGED <<env, syncId, now, aggVars, listVars>>

\* ------------------------------------------------------------------ Next
\* The whole component: every effect, subscription, timer and handler.
Next ==
  \/ \E r \in Replicas : Mount(r)
  \/ \E r \in Replicas : setDevice(r)
  \/ \E r \in Replicas, rt \in RateSet : setRates(r, rt)
  \/ \E r \in Replicas : onConnect(r)
  \/ \E t \in NextDue : t <= MaxTime /\ Advance(t)
  \/ \E r \in Replicas : pulseInterval(r)
  \/ \E r \in Replicas : \E d \in timeouts[r] : decay(r, d)
  \/ \E r \in Replicas, n \in sent : Deliver(r, n)
  \/ \E r \in Replicas, f \in OutSubmits :
        nextId <= MaxIds /\ addOutParty(r, f[1], f[2])
  \/ \E r \in Replicas, id \in Ids :
        gun[[c |-> "outParty", id |-> id]] # Undefined /\ removeOutParty(r, id)
  \/ \E r \in Replicas, f \in MainSubmits :
        nextId <= MaxIds /\ addMainEntry(r, f[1], f[2], f[3], f[4], f[5])
  \/ \E r \in Replicas, id \in Ids :
        gun[[c |-> "main", id |-> id]] # Undefined /\ removeMainEntry(r, id)
  \/ \E r \in Replicas, ok \in BOOLEAN, crash \in Crashes :
        dayEnds < MaxDayEnds /\ finalizeBook(r, ok, crash)

Spec == Init /\ [][Next]_vars

\* ------------------------------------------------ runs about the roles
\* Any hash on either device, sessions preset or entered at the AuthGate,
\* every handler called on every device, the heartbeat running (what a
\* device does with a pulse it observes is left to the heartbeat runs).
NextRole ==
  \/ \E r \in Replicas : Mount(r)
  \/ \E r \in Replicas : setDevice(r)
  \/ \E r \in Replicas : onConnect(r)
  \/ \E t \in NextDue : t <= MaxTime /\ Advance(t)
  \/ \E r \in Replicas : pulseInterval(r)
  \/ \E r \in Replicas, n \in sent : n.key # PulseKey /\ Deliver(r, n)
  \/ \E r \in Replicas, f \in OutSubmits :
        nextId <= RoleIds /\ addOutParty(r, f[1], f[2])
  \/ \E r \in Replicas, id \in Ids :
        gun[[c |-> "outParty", id |-> id]] # Undefined /\ removeOutParty(r, id)
  \/ \E r \in Replicas, f \in MainSubmits :
        nextId <= RoleIds /\ addMainEntry(r, f[1], f[2], f[3], f[4], f[5])
  \/ \E r \in Replicas, id \in Ids :
        gun[[c |-> "main", id |-> id]] # Undefined /\ removeMainEntry(r, id)
  \/ \E r \in Replicas, ok \in BOOLEAN :
        dayEnds < 1 /\ finalizeBook(r, ok, "none")

\* the desktop enters the session at the AuthGate, the handheld has it stored
InitRole == Init /\ syncId = [r \in Replicas |-> IF r = "r1" THEN "" ELSE SessionId]

SpecRole == InitRole /\ [][NextRole]_vars

\* ----------------------------------------------- runs about replication
\* r1 is the editor, r2 a viewer, both in the session; the editor adds and
\* removes entries, the store delivers to both in any order, again and again.
InitSync ==
  /\ Init
  /\ hash = [r \in Replicas |-> ""]
  /\ userAgent = [r \in Replicas |-> IF r = "r1" THEN "desktop" ELSE "Android"]
  /\ syncId = [r \in Replicas |-> SessionId]

NextSync ==
  \/ \E r \in Replicas : Mount(r)
  \/ \E r \in Replicas : setDevice(r)
  \/ \E r \in Replicas, n \in sent : Deliver(r, n)
  \/ \E f \in OutSubmits : nextId <= SyncIds /\ addOutParty("r1", f[1], f[2])
  \/ \E id \in Ids :
        gun[[c |-> "outParty", id |-> id]] # Undefined /\ removeOutParty("r1", id)
  \/ \E f \in MainSubmits :
        nextId <= SyncIds /\ addMainEntry("r1", f[1], f[2], f[3], f[4], f[5])
  \/ \E id \in Ids :
        gun[[c |-> "main", id |-> id]] # Undefined /\ removeMainEntry("r1", id)

SpecSync == InitSync /\ [][NextSync]_vars

\* ------------------------------------------- runs about Day-End and retry
\* The editor alone: it adds entries, closes the day, may die inside the
\* Day-End, comes back and closes the day again.
InitRetry ==
  /\ Init
  /\ hash = [r \in Replicas |-> ""]
  /\ userAgent = [r \in Replicas |-> IF r = "r1" THEN "desktop" ELSE "Android"]
  /\ syncId = [r \in Replicas |-> SessionId]

NextRetry ==
  \/ Mount("r1")
  \/ setDevice("r1")
  \/ \E rt \in RateSet : setRates("r1", rt)
  \/ \E n \in sent : Deliver("r1", n)
  \/ \E f \in OutSubmits : nextId <= RetryIds /\ addOutParty("r1", f[1], f[2])
  \/ \E f \in MainSubmits :
        nextId <= RetryIds /\ addMainEntry("r1", f[1], f[2], f[3], f[4], f[5])
  \/ \E ok \in BOOLEAN, crash \in Crashes :
        dayEnds < MaxDayEnds /\ finalizeBook("r1", ok, crash)

SpecRetry == InitRetry /\ [][NextRetry]_vars

\* --------------------------------------------- runs about the aggregation
\* One device's two collections are filled through the subscription handler
\* with entries of every method; totals are then computed from them.  An
\* out-party entry carries the index its creator counted, which may tie with
\* an earlier one.
aggPutOut(method, amount, index) ==
  /\ Len(aggOut) < MaxAggOut
  /\ LET id    == Len(aggOut) + 1
         entry == [id |-> id, index |-> index, method |-> method, amount |-> amount]
     IN  aggOut' = onEntry(aggOut, JSONstringify(entry), id)
  /\ UNCHANGED <<ledgerVars, aggMain, aggOpen, listVars>>

aggPutMain(roomNo, description, method, cashIn, cashOut) ==
  /\ Len(aggMain) < MaxAggMain
  /\ LET id    == Len(aggMain) + 1
         entry == [id |-> id, roomNo |-> roomNo, description |-> description,
                   method |-> method, cashIn |-> cashIn, cashOut |-> cashOut]
     IN  aggMain' = onEntry(aggMain, JSONstringify(entry), id)
  /\ UNCHANGED <<ledgerVars, aggOut, aggOpen, listVars>>

InitAgg ==
  /\ InitLedger
  /\ hash = [r \in Replicas |-> ""]
  /\ userAgent = [r \in Replicas |-> IF r = "r1" THEN "desktop" ELSE "Android"]
  /\ syncId = [r \in Replicas |-> SessionId]
  /\ aggOut = <<>>
  /\ aggMain = <<>>
  /\ aggOpen \in Openings
  /\ InitWholeList

NextAgg ==
  \/ \E f \in AggOutSubmits, ix \in {1, Len(aggOut) + 1} : aggPutOut(f[1], f[2], ix)
  \/ \E f \in AggMainSubmits : aggPutMain(f[1], f[2], f[3], f[4], f[5])

SpecAgg == InitAgg /\ [][NextAgg]_vars

aggTotals == totalsOf(outPartyEntriesOf(aggOut), mainEntriesOf(aggMain), aggOpen)

\* ======================================================================
\*                              the claims
\* ======================================================================

\* the sum of an integer-valued function over its finite domain
RECURSIVE Sigma(_)
Sigma(f) ==
  IF DOMAIN f = {} THEN 0
  ELSE LET x == CHOOSE y \in DOMAIN f : TRUE
       IN  f[x] + Sigma([y \in DOMAIN f \ {x} |-> f[y]])

\* the reference totals over the entries of two collections
RefOp(opm, m) ==
  Sigma([i \in DOMAIN opm |-> IF opm[i].val.method = m THEN opm[i].val.amount ELSE 0])
RefIn(mem, ms) ==
  Sigma([i \in DOMAIN mem |-> IF mem[i].val.method \in ms THEN mem[i].val.cashIn ELSE 0])
RefOut(mem) == Sigma([i \in DOMAIN mem |-> mem[i].val.cashOut])

RefTotals(opm, mem, ob) ==
  LET totalCard    == RefOp(opm, "CARD") + RefIn(mem, {"CARD"})
      totalPaypal  == RefOp(opm, "PAYPAL") + RefIn(mem, {"PAYPAL"})
      totalCashIn  == ob + RefIn(mem, PaymentMethod) + RefOp(opm, "CASH")
                      + RefOp(opm, "CARD") + RefOp(opm, "PAYPAL")
      totalCashOut == RefOut(mem) + totalCard + totalPaypal
  IN  [opCash |-> RefOp(opm, "CASH"), opCard |-> RefOp(opm, "CARD"),
       opPaypal |-> RefOp(opm, "PAYPAL"),
       totalCard |-> totalCard, totalPaypal |-> totalPaypal,
       totalCashIn |-> totalCashIn, totalCashOut |-> totalCashOut,
       balance |-> totalCashIn - totalCashOut]

\* the worked example: opening 1000; out-party CASH 500, CARD 200; main
\* {300 in, 100 out, CASH}, {50 in, 0 out, CARD}
IsExample ==
  /\ aggOpen = 1000
  /\ Len(aggOut) = 2 /\ Len(aggMain) = 2
  /\ {<<e.method, e.amount>> : e \in Range(ObjectValues(aggOut))}
       = {<<"CASH", 500>>, <<"CARD", 200>>}
  /\ {<<e.method, e.cashIn, e.cashOut>> : e \in Range(ObjectValues(aggMain))}
       = {<<"CASH", 300, 100>>, <<"CARD", 50, 0>>}

\* C3: for every opening balance and all entries, the computed totals equal
\* the reference definition of each component, and the worked example yields
\* opCash 500, opCard 200, totalCard 250, totalCashIn 2050, totalCashOut 350
\* and finalBalance 1700.
C3_TotalsMatchReference ==
  /\ aggTotals = RefTotals(aggOut, aggMain, aggOpen)
  /\ IsExample =>
       /\ aggTotals.opCash = 500 /\ aggTotals.opCard = 200
       /\ aggTotals.totalCard = 250
       /\ aggTotals.totalCashIn = 2050
       /\ aggTotals.totalCashOut = 350
       /\ aggTotals.balance = 1700

C3_Witness == IsExample

\* all orderings of a sequence
Perms(n) == {p \in [1..n -> 1..n] : \A i, j \in 1..n : p[i] = p[j] => i = j}
Permuted(s, p) == [i \in DOMAIN s |-> s[p[i]]]

\* C4: the totals are the same for every ordering of the same out-party
\* entries and every ordering of the same main entries, with the same
\* opening balance.
C4_OrderIndependent ==
  \A p \in Perms(Len(aggOut)), q \in Perms(Len(aggMain)) :
     totalsOf(outPartyEntriesOf(Permuted(aggOut, p)),
              mainEntriesOf(Permuted(aggMain, q)), aggOpen) = aggTotals

\* two entries of the same method with different amounts in each collection,
\* so that another ordering exists and sums them in another order
C4_Witness ==
  /\ \E i, j \in DOMAIN aggOut :
        /\ i # j /\ aggOut[i].val.method = aggOut[j].val.method
        /\ aggOut[i].val.amount # aggOut[j].val.amount
        /\ aggOut[i].val.index = aggOut[j].val.index
  /\ \E i, j \in DOMAIN aggMain :
        i # j /\ aggMain[i].val.cashIn # aggMain[j].val.cashIn

\* ------------------------------------------------------------- roles
Viewers == {"android", "iphone"}

\* C1: a call of addOutParty, removeOutParty, addMainEntry, removeMainEntry
\* or Day-End on a device whose declared class is android or iphone makes no
\* store write: the step leaves the store and its notifications as they were.
C1_ViewerWritesNothing ==
  [][\A r \in Replicas :
       (/\ device[r] \in Viewers
        /\ lastOp' # lastOp
        /\ lastOp'.by = r
        /\ lastOp'.kind \in {"edit", "dayEnd"})
       => /\ gun' = gun
          /\ sent' = sent
          /\ lastOp'.writes = <<>>]_vars

\* a viewer that is in the session and holds live entries has just called
\* Day-End
C1_Witness ==
  /\ lastOp.kind = "dayEnd"
  /\ lastOp.dev \in Viewers
  /\ syncId[lastOp.by] # ""
  /\ outPartyMap[lastOp.by] # <<>> \/ mainEntryMap[lastOp.by] # <<>>

\* C2: while the declared class is laptop and the user agent is handheld
\* (the restricted screen is shown), the process makes no store write at
\* all, the heartbeat pulse included.
C2_DeniedWritesNothing ==
  [][\A r \in Replicas :
       (AccessDenied(r) /\ lastOp' # lastOp /\ lastOp'.by = r)
       => gun' = gun /\ sent' = sent]_vars

\* ------------------------------------------------------- replication
localMap(r, k) == IF k.c = "outParty" THEN outPartyMap[r] ELSE mainEntryMap[r]
IsPayload(v) == v \notin {Undefined, Null}

\* C5: once the tombstone of an id has been delivered to a replica, the id
\* is absent from its local collection, whatever is delivered afterwards: a
\* creation delivered after the tombstone does not bring the id back.
C5_TombstoneAlwaysWins ==
  \A r \in Replicas, k \in CollKeys :
     (/\ Put(k, Null) \in seen[r]
      /\ IsPayload(lastDelivered[r][k]))
     => ~Has(localMap(r, k), k.id)

\* C6: the local state of every id reflects the notification delivered
\* last for it: absent if that was the tombstone (or nothing was delivered),
\* otherwise the deserialized payload of that notification under that id.
C6_ReflectsLastDelivered ==
  \A r \in Replicas, k \in CollKeys :
     IF IsPayload(lastDelivered[r][k])
       THEN /\ Has(localMap(r, k), k.id)
            /\ Get(localMap(r, k), k.id) = JSONparse(lastDelivered[r][k])
       ELSE ~Has(localMap(r, k), k.id)

\* a replica that held an entry and dropped it at the tombstone, while it
\* holds another entry
C6_Witness ==
  \E r \in Replicas, k, j \in CollKeys :
     /\ lastDelivered[r][k] = Null
     /\ \E n \in seen[r] : n.key = k /\ IsPayload(n.val)
     /\ IsPayload(lastDelivered[r][j])

\* every notification written for the key has been delivered to the replica
AllDelivered(r, k) ==
  /\ gun[k] # Undefined
  /\ {n \in sent : n.key = k} \subseteq seen[r]

agreesWithStore(r, k) ==
  IF gun[k] = Null THEN ~Has(localMap(r, k), k.id)
  ELSE Has(localMap(r, k), k.id) /\ Get(localMap(r, k), k.id) = JSONparse(gun[k])

liveSet(r) ==
  {<<"outParty", e>> : e \in Range(ObjectValues(outPartyMap[r]))}
    \cup {<<"main", e>> : e \in Range(ObjectValues(mainEntryMap[r]))}

\* C7: once every notification of a key has been delivered to a replica, in
\* whatever order and however often, its local state for the key is the
\* store's final value; and once that is so for every key on every replica,
\* all replicas have the same live set and, from the same opening balance,
\* the same totals.
C7_ConvergesOnceDelivered ==
  /\ \A r \in Replicas, k \in CollKeys : AllDelivered(r, k) => agreesWithStore(r, k)
  /\ (\A r \in Replicas, k \in CollKeys : gun[k] # Undefined => AllDelivered(r, k))
       => \A r, q \in Replicas :
            /\ liveSet(r) = liveSet(q)
            /\ openingBalance[r] = openingBalance[q] => totals(r) = totals(q)

\* ------------------------------------------------------------ Day-End
storedBalance == gun[BalanceKey]
storedHistory == IF gun[HistoryKey] = Undefined THEN <<>> ELSE JSONparse(gun[HistoryKey])

\* finalBalance and snapshot of a HistoryRecord (its dates left aside)
Content(h) ==
  [finalBalance |-> h.finalBalance,
   openingBalance |-> h.record.openingBalance,
   outPartyEntries |-> h.record.outPartyEntries,
   mainEntries |-> h.record.mainEntries,
   rates |-> h.record.rates]

\* the editor, caught up with the store and under the same rates, has run
\* Day-End to its end again with no edit since the earlier run
Rerun == dayEnd.phase = "rerun" /\ dayEnd.synced

\* C8: a Day-End cut after its tombstones only and then run again in full
\* leaves the HistoryRecord (finalBalance and snapshot) and the
\* OpeningBalance that the uninterrupted run would have written.
C8_InterruptedRerunSame ==
  (Rerun /\ dayEnd.first = "partial" /\ dayEnd.cuts = {"tombstones"})
    => /\ storedBalance = toString(dayEnd.expBalance)
       /\ storedHistory # <<>>
       /\ Content(Head(storedHistory)) = Content(dayEnd.expRecord)

\* C9: a Day-End run again after a completed or cut Day-End, with no edit
\* in between, leaves the stored OpeningBalance and the stored history of a
\* single run: no further and no other HistoryRecord.
C9_RetryIdempotent ==
  Rerun => /\ storedBalance = toString(dayEnd.expBalance)
           /\ storedHistory = dayEnd.expHistory

\* the step is a confirmed Day-End of r that ran to its end
DayEndStep(r) ==
  /\ dayEnds' = dayEnds + 1
  /\ lastOp'.by = r
  /\ isReady'[r]

\* C10: a confirmed Day-End writes, as OpeningBalance, the finalBalance of
\* the editor's live entries and opening balance at the call, and puts a
\* HistoryRecord first in the history that carries this finalBalance, these
\* out-party and main entries, this opening balance and the current rates.
C10_DayEndWritesSnapshot ==
  [][\A r \in Replicas : DayEndStep(r) =>
       LET final == RefTotals(outPartyMap[r], mainEntryMap[r], openingBalance[r]).balance
           h     == Head(JSONparse(gun'[HistoryKey]))
       IN  /\ gun'[BalanceKey] = toString(final)
           /\ h.finalBalance = final
           /\ h.record.openingBalance = openingBalance[r]
           /\ Len(h.record.outPartyEntries) = Len(outPartyMap[r])
           /\ Range(h.record.outPartyEntries) = Range(ObjectValues(outPartyMap[r]))
           /\ h.record.mainEntries = ObjectValues(mainEntryMap[r])
           /\ h.record.rates = rates[r]]_vars

\* a Day-End has archived one out-party entry and one main entry under
\* fetched rates, and the balance it wrote is their finalBalance
C10_Witness ==
  /\ storedHistory # <<>>
  /\ lastOp.kind = "dayEnd" /\ lastOp.writes # <<>>
  /\ Len(Head(storedHistory).record.outPartyEntries) = 1
  /\ Len(Head(storedHistory).record.mainEntries) = 1
  /\ Head(storedHistory).record.rates # DefaultRates
  /\ storedBalance = toString(Head(storedHistory).finalBalance)
  /\ Head(storedHistory).finalBalance # 0

\* the step is a confirmed Day-End of r, run to its end or cut
DayEndCall(r) == dayEnds' = dayEnds + 1 /\ lastOp'.by = r

IsPrefix(s, t) == Len(s) <= Len(t) /\ \A i \in DOMAIN s : s[i] = t[i]

\* C11: the writes of a confirmed Day-End, as far as it runs, are in this
\* order: one tombstone for every live out-party entry and every live main
\* entry of the editor, then the balance write, then the history write; no
\* balance or history write precedes a tombstone, and the history write
\* never precedes the balance write.
C11_DayEndWriteOrder ==
  [][\A r \in Replicas : DayEndCall(r) =>
       LET w    == lastOp'.writes
           live == {[c |-> "outParty", id |-> e.id] :
                       e \in Range(ObjectValues(outPartyMap[r]))}
                   \cup {[c |-> "main", id |-> e.id] :
                       e \in Range(ObjectValues(mainEntryMap[r]))}
           n    == Cardinality(live)
       IN  /\ gun' = GunPutAll(gun, w)
           /\ Len(w) \in {n, n + 1, n + 2}
           /\ \A i \in 1..n : w[i].val = Null
           /\ {w[i].key : i \in 1..n} = live
           /\ Len(w) > n => w[n + 1].key = BalanceKey /\ w[n + 1].val # Null
           /\ Len(w) > n + 1 => w[n + 2].key = HistoryKey /\ w[n + 2].val # Null
           /\ isReady'[r] <=> Len(w) = n + 2]_vars

\* a Day-End has tombstoned an out-party entry and a main entry and then
\* written the balance and the history
C11_Witness ==
  /\ lastOp.kind = "dayEnd"
  /\ Len(lastOp.writes) = 4
  /\ lastOp.writes[1].key.c = "outParty" /\ lastOp.writes[2].key.c = "main"
  /\ lastOp.writes[3].key = BalanceKey /\ lastOp.writes[4].key = HistoryKey

\* ------------------------------------------ runs about closing the day
\* r1 is the editor, r2 a viewer, both in the session; the editor adds
\* entries and closes the day once, the store delivers to both in any order.
NextClose ==
  \/ \E r \in Replicas : Mount(r)
  \/ \E r \in Replicas : setDevice(r)
  \/ \E r \in Replicas, n \in sent : Deliver(r, n)
  \/ \E f \in OutSubmits : nextId <= CloseIds /\ addOutParty("r1", f[1], f[2])
  \/ \E f \in MainSubmits :
        nextId <= CloseIds /\ addMainEntry("r1", f[1], f[2], f[3], f[4], f[5])
  \/ \E ok \in BOOLEAN : dayEnds < 1 /\ finalizeBook("r1", ok, "none")

SpecClose == InitSync /\ [][NextClose]_vars

\* every collection notification written so far has been delivered to r
AllOutstandingDelivered(r) ==
  /\ isReady[r]
  /\ \A n \in sent : n.key \in CollKeys => n \in seen[r]

\* the keys of the entries the editor held when it ran the Day-End
archivedKeys ==
  {[c |-> "outParty", id |-> e.id] : e \in Range(dayEnd.expRecord.record.outPartyEntries)}
    \cup {[c |-> "main", id |-> e.id] : e \in Range(dayEnd.expRecord.record.mainEntries)}

C13_HistoryPrependOnly ==
  [][IF \E r \in Replicas : DayEndStep(r)
       THEN /\ Len(JSONparse(gun'[HistoryKey])) = Len(storedHistory) + 1
            /\ Tail(JSONparse(gun'[HistoryKey])) = storedHistory
       ELSE gun'[HistoryKey] = gun[HistoryKey]]_vars

\* C14: a Day-End whose confirmation is refused writes nothing to the store
\* (no tombstone, no balance, no history) and leaves the local and the
\* stored state as they were.
C14_UnconfirmedDayEndNoEffect ==
  [][(lastOp' # lastOp /\ lastOp'.kind = "dayEnd" /\ ~lastOp'.confirmed)
       => /\ lastOp'.writes = <<>>
          /\ UNCHANGED <<gun, sent, local, device, syncId, isReady, dayEnds, dayEnd>>]_vars

\* the editor, in the session and holding entries that are live in the
\* store, has just refused the confirmation
C14_Witness ==
  /\ lastOp.kind = "dayEnd" /\ lastOp.dev = "laptop" /\ ~lastOp.confirmed
  /\ syncId[lastOp.by] # ""
  /\ outPartyMap[lastOp.by] # <<>> /\ mainEntryMap[lastOp.by] # <<>>
  /\ \E k \in CollKeys : IsPayload(gun[k])
  /\ gun[HistoryKey] = Undefined

\* the last call was a remove handler of the editor that wrote
IsRemove(op) == op.kind = "edit" /\ op.writes # <<>> /\ op.writes[1].val = Null

\* C15: removing twice is removing once. The tombstone write of a remove,
\* made again, leaves the store and its notifications as they are; on every
\* replica the tombstone delivered twice leaves the collection that one
\* delivery leaves; and the tombstone of an id that is absent leaves the
\* collection unchanged.
C15_TombstoneIdempotent ==
  /\ IsRemove(lastOp) =>
       /\ Len(lastOp.writes) = 1
       /\ GunPutAll(gun, lastOp.writes) = gun
       /\ Range(lastOp.writes) \subseteq sent
  /\ \A r \in Replicas, k \in CollKeys :
       LET m    == localMap(r, k)
           once == onEntry(m, Null, k.id)
       IN  /\ onEntry(once, Null, k.id) = once
           /\ ~Has(once, k.id)
           /\ Keys(once) = Keys(m) \ {k.id}
           /\ ~Has(m, k.id) => once = m

\* the editor has removed an entry, every replica has dropped it at the
\* tombstone and still holds another entry
C15_Witness ==
  /\ IsRemove(lastOp)
  /\ \A r \in Replicas :
        /\ lastDelivered[r][lastOp.writes[1].key] = Null
        /\ \E n \in seen[r] : n.key = lastOp.writes[1].key /\ IsPayload(n.val)
        /\ \E j \in CollKeys : j.c = lastOp.writes[1].key.c /\ Has(localMap(r, j), j.id)

\* the collection of r that n belongs to, after n is delivered
delivered(m, n) == onEntry(m, n.val, n.key.id)

\* the totals of r with the collection of key k replaced by m
totalsWith(r, k, m) ==
  IF k.c = "outParty"
    THEN totalsOf(outPartyEntriesOf(m), mainEntries(r), openingBalance[r])
    ELSE totalsOf(outPartyEntries(r), mainEntriesOf(m), openingBalance[r])

\* C16: a notification delivered twice in a row, payload or tombstone,
\* leaves the local collection and the totals that one delivery leaves.
C16_DuplicateDeliveryHarmless ==
  \A r \in Replicas, n \in sent :
     n.key \in CollKeys =>
       LET m     == localMap(r, n.key)
           once  == delivered(m, n)
           twice == delivered(once, n)
       IN  /\ twice = once
           /\ totalsWith(r, n.key, twice) = totalsWith(r, n.key, once)

\* a replica holds an entry whose payload it has been delivered last and has
\* dropped another at its tombstone: a duplicate of either finds its effect
\* already applied
C16_Witness ==
  \E r \in Replicas : \E n, t \in seen[r] :
     /\ IsPayload(n.val) /\ lastDelivered[r][n.key] = n.val
     /\ t.val = Null /\ lastDelivered[r][t.key] = Null
     /\ Put(t.key, Null) \in sent
     /\ totals(r).totalCashIn # 0

\* the collection an entry payload belongs to, by its fields
collectionOf(e) == IF "amount" \in DOMAIN e THEN "outParty" ELSE "main"

\* C17: an add or remove handler called on the editor makes no write when
\* no session id is set; with a session id it makes exactly one write: an
\* add writes a payload to the so far unused key of its collection and of a
\* fresh id, and the payload's id is that of the key; a remove writes the
\* tombstone to the key of the given id; no other key is written.
C17_OneWritePerEdit ==
  [][\A r \in Replicas :
       (lastOp' # lastOp /\ lastOp'.by = r /\ lastOp'.kind = "edit" /\ isEditor(r))
       => IF syncId[r] = ""
            THEN lastOp'.writes = <<>> /\ gun' = gun /\ sent' = sent
            ELSE /\ Len(lastOp'.writes) = 1
                 /\ LET w == lastOp'.writes[1]
                    IN  /\ w.key \in CollKeys
                        /\ gun' = [gun EXCEPT ![w.key] = w.val]
                        /\ sent' = sent \cup {w}
                        /\ IF w.val = Null
                             THEN gun[w.key] # Undefined
                             ELSE /\ gun[w.key] = Undefined
                                  /\ JSONparse(w.val).id = w.key.id
                                  /\ collectionOf(JSONparse(w.val)) = w.key.c]_vars

\* the editor, in the session, has added an entry and has just removed it
C17_Witness ==
  /\ IsRemove(lastOp) /\ lastOp.dev = "laptop"
  /\ syncId[lastOp.by] # ""
  /\ \E n \in sent : n.key = lastOp.writes[1].key /\ IsPayload(n.val)
                     /\ JSONparse(n.val).id = n.key.id
  /\ gun[lastOp.writes[1].key] = Null

\* ------------------------------------------- runs about corrupt payloads
\* a string that JSON.parse rejects
Malformed == [t |-> "string", bad |-> TRUE]
IsMalformed(v) == v = Malformed

\* another peer of the session writes a corrupt payload under a collection key
corruptPut(k) ==
  /\ gun' = GunPut(gun, Put(k, Malformed))
  /\ sent' = sent \cup {Put(k, Malformed)}
  /\ lastOp' = [NoOp EXCEPT !.kind = "peer", !.writes = <<Put(k, Malformed)>>]
  /\ UNCHANGED <<env, timerVars, device, syncId, isReady, local, nextId, now, dayEnds,
                 dayEnd, aggVars, listVars>>

\* the map().on handler is given a payload that JSON.parse rejects: the
\* state updater throws while the component renders, no error boundary
\* catches it, and the component tree is unmounted: its state is gone and
\* its effects are cleaned up until the page is loaded again
onEntryThrows(r, n) ==
  /\ Subscribed(r)
  /\ n \in sent
  /\ n.key \in CollKeys
  /\ IsMalformed(n.val)
  /\ Reload(r)
  /\ lastOp' = Op("malformed", r, FALSE, <<>>)
  /\ UNCHANGED <<env, syncId, gun, sent, nextId, now, dayEnds, dayEnd, aggVars, listVars>>

NextCorrupt ==
  \/ \E r \in Replicas : Mount(r)
  \/ \E r \in Replicas : setDevice(r)
  \/ \E r \in Replicas, n \in sent : ~IsMalformed(n.val) /\ Deliver(r, n)
  \/ \E r \in Replicas, n \in sent : onEntryThrows(r, n)
  \/ \E f \in OutSubmits : nextId <= CorruptIds /\ addOutParty("r1", f[1], f[2])
  \/ \E f \in MainSubmits :
        nextId <= CorruptIds /\ addMainEntry("r1", f[1], f[2], f[3], f[4], f[5])
  \/ \E k \in CollKeys : k.id <= CorruptIds /\ corruptPut(k)

SpecCorrupt == InitSync /\ [][NextCorrupt]_vars

\* C18: a notification whose payload does not deserialize is dropped: the
\* replica's collections are left as they are, and the replica stays
\* subscribed, so that later notifications are still applied.
C18_MalformedDropped ==
  [][\A r \in Replicas :
       (lastOp' # lastOp /\ lastOp'.kind = "malformed" /\ lastOp'.by = r)
       => /\ outPartyMap'[r] = outPartyMap[r]
          /\ mainEntryMap'[r] = mainEntryMap[r]
          /\ Subscribed(r)']_vars

\* the entries live on r: those whose last delivered notification is a payload
liveEntries(r, c) ==
  LET ks == {k \in CollKeys : k.c = c /\ IsPayload(lastDelivered[r][k])}
  IN  [k \in ks |-> JSONparse(lastDelivered[r][k])]

\* the reference totals over the live entries and the opening balance only
liveTotals(r) ==
  LET o  == liveEntries(r, "outParty")
      m  == liveEntries(r, "main")
      op(x) == Sigma([k \in DOMAIN o |-> IF o[k].method = x THEN o[k].amount ELSE 0])
      in(x) == Sigma([k \in DOMAIN m |-> IF m[k].method = x THEN m[k].cashIn ELSE 0])
      allIn  == Sigma([k \in DOMAIN m |-> m[k].cashIn])
      allOut == Sigma([k \in DOMAIN m |-> m[k].cashOut])
      totalCard    == op("CARD") + in("CARD")
      totalPaypal  == op("PAYPAL") + in("PAYPAL")
      totalCashIn  == openingBalance[r] + allIn + op("CASH") + op("CARD") + op("PAYPAL")
      totalCashOut == allOut + totalCard + totalPaypal
  IN  [opCash |-> op("CASH"), opCard |-> op("CARD"), opPaypal |-> op("PAYPAL"),
       totalCard |-> totalCard, totalPaypal |-> totalPaypal,
       totalCashIn |-> totalCashIn, totalCashOut |-> totalCashOut,
       balance |-> totalCashIn - totalCashOut]

\* C19: on every replica the totals are those of the entries live in its
\* collections and of its opening balance, and of nothing else: an entry
\* whose last delivered notification is the tombstone contributes nothing.
C19_TotalsOverLiveEntries ==
  \A r \in Replicas : totals(r) = liveTotals(r)

\* a replica with an opening balance carried forward holds a live entry and
\* has dropped another at its tombstone
C19_Witness ==
  \E r \in Replicas, k, j \in CollKeys :
     /\ lastDelivered[r][k] = Null
     /\ Put(k, Null) \in seen[r] /\ \E n \in seen[r] : n.key = k /\ IsPayload(n.val)
     /\ IsPayload(lastDelivered[r][j])
     /\ openingBalance[r] # 0
     /\ totals(r).balance # openingBalance[r]

\* the totals computed anywhere in the state: on each replica, and from the
\* collections fed to the aggregation alone
allTotals == {totals(r) : r \in Replicas} \cup {aggTotals}

\* C20 as stated: whatever the opening balance, no totals component other
\* than finalBalance is negative.
C20_OnlyBalanceNegative ==
  \A t \in allTotals :
     /\ t.opCash >= 0 /\ t.opCard >= 0 /\ t.opPaypal >= 0
     /\ t.totalCard >= 0 /\ t.totalPaypal >= 0
     /\ t.totalCashIn >= 0 /\ t.totalCashOut >= 0

\* C20 amended: opCash, opCard, opPaypal, totalCard, totalPaypal and
\* totalCashOut are never negative, totalCashIn is never below the opening
\* balance, and so is not negative when the opening balance is not.
C20_NonNegativeButCashIn ==
  /\ \A r \in Replicas :
       LET t == totals(r)
       IN  /\ t.opCash >= 0 /\ t.opCard >= 0 /\ t.opPaypal >= 0
           /\ t.totalCard >= 0 /\ t.totalPaypal >= 0 /\ t.totalCashOut >= 0
           /\ t.totalCashIn >= openingBalance[r]
           /\ openingBalance[r] >= 0 => t.totalCashIn >= 0
  /\ LET t == aggTotals
     IN  /\ t.opCash >= 0 /\ t.opCard >= 0 /\ t.opPaypal >= 0
         /\ t.totalCard >= 0 /\ t.totalPaypal >= 0 /\ t.totalCashOut >= 0
         /\ t.totalCashIn >= aggOpen
         /\ aggOpen >= 0 => t.totalCashIn >= 0

\* a Day-End over non-negative entries has carried a negative balance
\* forward, and a replica that has received it computes a negative
\* totalCashIn
C20_Witness ==
  \E r \in Replicas :
     /\ storedBalance # Undefined /\ parseFloat(storedBalance) < 0
     /\ openingBalance[r] = parseFloat(storedBalance)
     /\ totals(r).totalCashIn < 0
     /\ totals(r).totalCashOut >= 0

\* ------------------------------------------------ runs about the forms
FormIds == 2   \* entries submitted through the forms in one run

\* what a number input holds when it is submitted: nothing, or the text of a
\* number, which may carry a sign (the inputs set no min)
EmptyText == [t |-> "string", empty |-> TRUE]
FormTexts == {EmptyText, toString(0), toString(2), toString(-5)}

\* (text || '0')
OrText(s, d) == IF s = EmptyText THEN d ELSE s

\* OutEntryForm onSubmit; the amount input is required, so the browser does
\* not submit it empty. The form is rendered for the editor in a session.
OutEntryForm(r, method, amount) ==
  /\ isEditor(r) /\ syncId[r] # ""
  /\ amount # EmptyText
  /\ addOutParty(r, method, parseFloat(amount))

\* MainEntryForm submit; the description is required
MainEntryForm(r, room, desc, method, ci, co) ==
  /\ isEditor(r) /\ syncId[r] # ""
  /\ desc # ""
  /\ addMainEntry(r, room, desc, method, parseFloat(OrText(ci, toString(0))),
                  parseFloat(OrText(co, toString(0))))

NextForm ==
  \/ \E r \in Replicas : Mount(r)
  \/ \E r \in Replicas : setDevice(r)
  \/ \E r \in Replicas, n \in sent : Deliver(r, n)
  \/ \E a \in FormTexts : nextId <= FormIds /\ OutEntryForm("r1", "CASH", a)
  \/ \E ci, co \in FormTexts :
        nextId <= FormIds /\ MainEntryForm("r1", "", "d", "CARD", ci, co)

SpecForm == InitSync /\ [][NextForm]_vars

\* the amounts of an entry are present and not negative
AmountsOk(e) ==
  IF collectionOf(e) = "outParty"
    THEN "amount" \in DOMAIN e /\ e.amount \in Nat
    ELSE {"cashIn", "cashOut"} \subseteq DOMAIN e /\ e.cashIn \in Nat /\ e.cashOut \in Nat

\* C21: every entry written to the store, and every entry live on a replica,
\* has its amount (out-party) or its cashIn and cashOut (main) present and
\* not negative, whatever the forms submit.
C21_AmountsNonNegative ==
  /\ \A k \in CollKeys : IsPayload(gun[k]) => AmountsOk(JSONparse(gun[k]))
  /\ \A r \in Replicas :
        \A e \in Range(outPartyEntries(r)) \cup Range(mainEntries(r)) : AmountsOk(e)

\* an input left empty is stored as zero, never as a missing field
EmptyIsZero ==
  \A k \in CollKeys : IsPayload(gun[k]) =>
     LET e == JSONparse(gun[k])
     IN  IF k.c = "outParty" THEN "amount" \in DOMAIN e /\ e.amount \in Int
         ELSE {"cashIn", "cashOut"} \subseteq DOMAIN e /\ e.cashIn \in Int /\ e.cashOut \in Int

\* C22: the stored OpeningBalance and the stored history change only through
\* Day-End: a call of addOutParty, removeOutParty, addMainEntry or
\* removeMainEntry and a heartbeat write neither the balance key nor the
\* history key, and every step that changes one of them is a confirmed
\* Day-End.
C22_BalanceOnlyByDayEnd ==
  [][/\ (lastOp' # lastOp /\ lastOp'.kind \in {"edit", "timer"})
          => /\ gun'[BalanceKey] = gun[BalanceKey]
             /\ gun'[HistoryKey] = gun[HistoryKey]
             /\ \A w \in (sent' \ sent) \cup Range(lastOp'.writes) :
                   w.key \notin {BalanceKey, HistoryKey}
     /\ (gun'[BalanceKey] # gun[BalanceKey] \/ gun'[HistoryKey] # gun[HistoryKey])
          => lastOp'.kind = "dayEnd" /\ lastOp'.confirmed]_vars

\* a Day-End has written balance and history, entries have been added and
\* removed, and the heartbeat has just written its pulse
C22_Witness ==
  /\ gun[BalanceKey] # Undefined /\ gun[HistoryKey] # Undefined
  /\ \E k \in CollKeys : gun[k] = Null
  /\ lastOp.kind = "timer" /\ lastOp.writes # <<>>
  /\ gun[PulseKey] # Undefined

\* --------------------------------------------- runs about the heartbeat
\* r1 is the editor, r2 a viewer, both with the session stored; either page
\* is loaded at any moment, the store delivers every pulse to every
\* subscriber any number of times, at the moment it is written or later.
\* a delay after which a notification may arrive: half an interval
Lag == PulseEvery \div 2

NextPulse ==
  \/ \E r \in Replicas : Mount(r)
  \/ \E r \in Replicas : setDevice(r)
  \/ \E t \in NextDue \cup {now + Lag} : t <= PulseTime /\ Advance(t)
  \/ \E r \in Replicas : pulseInterval(r)
  \/ \E r \in Replicas : \E d \in timeouts[r] : decay(r, d)
  \/ \E r \in Replicas, n \in sent : Deliver(r, n)

SpecPulse == InitSync /\ [][NextPulse]_vars

C24_EditorPulses ==
  [][\A r \in Replicas :
       /\ (lastOp' # lastOp /\ lastOp'.kind = "timer" /\ lastOp'.by = r)
            => /\ now = pulseTimer[r] /\ pulseTimer'[r] = now + PulseEvery
               /\ IF device[r] = "laptop"
                    THEN /\ lastOp'.writes = <<Put(PulseKey, Number(now))>>
                         /\ gun'[PulseKey] = Number(now)
                         /\ gun[PulseKey] # Undefined
                              => gun[PulseKey].num = now - PulseEvery
                    ELSE /\ lastOp'.writes = <<>>
                         /\ gun' = gun /\ sent' = sent
       /\ (gun'[PulseKey] # gun[PulseKey] /\ lastOp'.by = r)
            => device[r] = "laptop" /\ lastOp'.kind = "timer"]_vars

\* the editor has written its second pulse, the viewer's interval has run too
C24_Witness ==
  /\ lastOp.kind = "timer" /\ lastOp.by = "r1" /\ lastOp.writes # <<>>
  /\ gun[PulseKey] = Number(2 * PulseEvery)
  /\ Put(PulseKey, Number(PulseEvery)) \in sent
  /\ device["r2"] = "android" /\ pulseTimer["r2"] > PulseEvery

\* C25: a device on which no pulse has been observed for longer than the
\* decay delay shows peerActive false (and so does one that has observed
\* none); the flag becomes true only in a step in which a pulse is observed.
C25_DecaysWithoutPulse ==
  [][\A r \in Replicas :
       /\ (lastPulse'[r] = NoTimer \/ now' > lastPulse'[r] + DecayAfter)
            => ~peerActive'[r]
       /\ (~peerActive[r] /\ peerActive'[r])
            => lastPulse'[r] = now /\ \E n \in sent : n.key = PulseKey]_vars

\* a viewer has observed a pulse, more than the decay delay has passed
\* without another, its flag is false, and a newer pulse waits in the store
C25_Witness ==
  \E r \in Replicas :
     /\ device[r] = "android" /\ isReady[r]
     /\ lastPulse[r] # NoTimer /\ now > lastPulse[r] + DecayAfter
     /\ ~peerActive[r]
     /\ gun[PulseKey] # Undefined /\ gun[PulseKey].num > lastPulse[r]

\* C27: peerActive turns false on a device only when no pulse has been
\* observed on it for the decay delay: while pulses keep arriving at the
\* heartbeat interval, which is shorter, the flag stays true.
C27_StaysActiveWhilePulsesArrive ==
  [][\A r \in Replicas :
       (peerActive[r] /\ ~peerActive'[r] /\ subscription'[r] # 0)
          => now >= lastPulse[r] + DecayAfter]_vars

\* a collection with every index replaced by its negative, which reverses
\* the order the entries are sorted in
Reindexed(m) ==
  [i \in DOMAIN m |-> [key |-> m[i].key,
                       val |-> [m[i].val EXCEPT !.index = 0 - m[i].val.index]]]

OutKeys == {k \in CollKeys : k.c = "outParty"}

\* C26: addOutParty gives the new entry the index (number of out-party
\* entries in the editor's local collection) + 1; the index stored under an
\* id, and the index a replica holds for an id, never change while the entry
\* exists, whatever is added, removed or delivered; and the totals are the
\* same when the indexes, and with them the sort order, are changed.
C26_IndexIsDisplayHint ==
  [][/\ \A r \in Replicas :
          (/\ lastOp' # lastOp /\ lastOp'.by = r /\ lastOp'.kind = "edit"
           /\ lastOp'.writes # <<>>
           /\ lastOp'.writes[1].key.c = "outParty"
           /\ lastOp'.writes[1].val # Null)
          => JSONparse(lastOp'.writes[1].val).index = Len(outPartyMap[r]) + 1
     /\ \A k \in OutKeys :
          IsPayload(gun[k]) => gun'[k] = Null \/ gun'[k] = gun[k]
     /\ \A r \in Replicas, id \in Ids :
          (Has(outPartyMap[r], id) /\ Has(outPartyMap'[r], id))
          => Get(outPartyMap'[r], id).index = Get(outPartyMap[r], id).index
     /\ \A r \in Replicas :
          totalsOf(outPartyEntriesOf(Reindexed(outPartyMap'[r])), mainEntries(r)',
                   openingBalance'[r]) = totals(r)'
     /\ totalsOf(outPartyEntriesOf(Reindexed(aggOut')), mainEntriesOf(aggMain'),
                 aggOpen') = aggTotals']_vars

\* the editor added a second entry before the first was delivered to it:
\* both carry index 1, and a replica holds both
C26_Witness ==
  \E r \in Replicas :
     /\ Len(outPartyMap[r]) = 2
     /\ outPartyMap[r][1].val.index = 1 /\ outPartyMap[r][2].val.index = 1
     /\ mainEntryMap[r] = <<>>

\* C28: a call of addOutParty, removeOutParty, addMainEntry, removeMainEntry
\* or Day-End changes no local collection, opening balance or history on any
\* device; a device's collection, opening balance or history changes only by
\* its own subscription handler applied to a notification of the store.
C28_NotOptimistic ==
  [][/\ (lastOp' # lastOp /\ lastOp'.kind \in {"edit", "dayEnd"})
          => /\ outPartyMap' = outPartyMap /\ mainEntryMap' = mainEntryMap
             /\ openingBalance' = openingBalance /\ historyList' = historyList
     /\ \A r \in Replicas :
          /\ outPartyMap'[r] # outPartyMap[r]
               => /\ Subscribed(r)
                  /\ \E n \in sent : /\ n.key.c = "outParty"
                                     /\ outPartyMap'[r] = onEntry(outPartyMap[r], n.val, n.key.id)
          /\ mainEntryMap'[r] # mainEntryMap[r]
               => /\ Subscribed(r)
                  /\ \E n \in sent : /\ n.key.c = "main"
                                     /\ mainEntryMap'[r] = onEntry(mainEntryMap[r], n.val, n.key.id)
          /\ openingBalance'[r] # openingBalance[r]
               => /\ Subscribed(r)
                  /\ \E n \in sent : /\ n.key = BalanceKey
                                     /\ openingBalance'[r] = parseFloat(n.val)
          /\ historyList'[r] # historyList[r]
               => /\ Subscribed(r)
                  /\ \E n \in sent : /\ n.key = HistoryKey
                                     /\ historyList'[r] = JSONparse(n.val)]_vars

\* the editor has just confirmed a Day-End: the store holds the tombstones,
\* the new balance and the history, and the editor still holds its entries,
\* the old opening balance and no history
C28_Witness ==
  /\ lastOp.kind = "dayEnd" /\ lastOp.confirmed /\ lastOp.writes # <<>>
  /\ gun[BalanceKey] # Undefined /\ gun[HistoryKey] # Undefined
  /\ \E k \in CollKeys : gun[k] = Null /\ Has(localMap(lastOp.by, k), k.id)
  /\ openingBalance[lastOp.by] # parseFloat(gun[BalanceKey])
  /\ historyList[lastOp.by] = <<>>

\* a Day-End has run to its end and replica r has been delivered the
\* tombstone of every entry it archived, last for that entry, but has not
\* yet observed the balance it wrote
BetweenSteps(r) ==
  /\ dayEnd.phase = "complete"
  /\ archivedKeys # {}
  /\ \A k \in archivedKeys : lastDelivered[r][k] = Null
  /\ \A k \in CollKeys \ archivedKeys : ~IsPayload(lastDelivered[r][k])
  /\ openingBalance[r] = dayEnd.expRecord.record.openingBalance
  /\ openingBalance[r] # dayEnd.expBalance

\* C29: Day-End is not atomic for observers. A replica that has been
\* delivered the tombstones of a Day-End but not yet its balance holds empty
\* collections and the opening balance of before the Day-End, and displays
\* that opening balance as finalBalance: not the balance the day was closed
\* with, which is the balance carried forward.
C29_PartialDayEndVisible ==
  \A r \in Replicas :
     BetweenSteps(r)
     => /\ outPartyMap[r] = <<>> /\ mainEntryMap[r] = <<>>
        /\ totals(r).balance = dayEnd.expRecord.record.openingBalance
        /\ totals(r).balance # dayEnd.expRecord.finalBalance
        /\ storedBalance = toString(dayEnd.expBalance)
        /\ totals(r).balance # parseFloat(storedBalance)

\* the viewer is between the steps of a Day-End that closed a day with
\* entries in both collections
C29_Witness ==
  /\ BetweenSteps("r2")
  /\ dayEnd.expRecord.record.outPartyEntries # <<>>
  /\ dayEnd.expRecord.record.mainEntries # <<>>
  /\ isReady["r2"] /\ device["r2"] = "android"

\* finalBalance recomputed from the snapshot a HistoryRecord carries
snapshotBalance(h) ==
  totalsOf(h.record.outPartyEntries, h.record.mainEntries,
           h.record.openingBalance).balance

\* C30: every HistoryRecord of the stored history, and of every history
\* notification and every local history list, carries the finalBalance that
\* the aggregation yields over its own snapshot.
C30_RecordSelfConsistent ==
  /\ \A i \in DOMAIN storedHistory :
        storedHistory[i].finalBalance = snapshotBalance(storedHistory[i])
  /\ \A n \in sent : n.key = HistoryKey =>
        \A i \in DOMAIN JSONparse(n.val) :
           JSONparse(n.val)[i].finalBalance = snapshotBalance(JSONparse(n.val)[i])
  /\ \A r \in Replicas : \A i \in DOMAIN historyList[r] :
        historyList[r][i].finalBalance = snapshotBalance(historyList[r][i])

\* the stored history holds two records: a day closed with entries and a
\* non-zero balance, and a day opened with a carried-forward balance
C30_Witness ==
  /\ Len(storedHistory) = 2
  /\ \E i \in DOMAIN storedHistory :
        /\ storedHistory[i].record.outPartyEntries # <<>>
        /\ storedHistory[i].finalBalance # 0
  /\ \E i \in DOMAIN storedHistory : storedHistory[i].record.openingBalance # 0

\* -------------------------------------------------------- balance chain
\* C31: in every reachable state the stored history is a balance chain: of
\* two adjacent records the newer one's snapshot openingBalance is the older
\* one's finalBalance, and the stored OpeningBalance is the finalBalance of
\* the newest record, whenever Day-End runs relative to the delivery of the
\* balance written by the Day-End before it.
C31_BalanceChain ==
  /\ \A i \in 1..(Len(storedHistory) - 1) :
        storedHistory[i].record.openingBalance = storedHistory[i + 1].finalBalance
  /\ storedHistory # <<>> =>
        storedBalance = toString(Head(storedHistory).finalBalance)

\* --------------------------------------------------------- carry-forward
\* the balance puts among the writes of the last call
balanceWrites(op) ==
  {op.writes[i].val : i \in {j \in DOMAIN op.writes : op.writes[j].key = BalanceKey}}

\* C32: carry-forward is a fixed point. The aggregation over empty
\* collections with opening balance F yields finalBalance F, and a confirmed
\* Day-End of an editor that holds no live entry writes, as OpeningBalance,
\* the opening balance the editor holds (so the stored value stays what it
\* is when the editor holds the stored one), in a record whose finalBalance
\* is its openingBalance.
C32_CarryForwardFixedPoint ==
  [][/\ \A f \in Openings : totalsOf(<<>>, <<>>, f).balance = f
     /\ \A r \in Replicas :
          (/\ dayEnds' = dayEnds + 1 /\ lastOp'.by = r
           /\ outPartyMap[r] = <<>> /\ mainEntryMap[r] = <<>>)
          => /\ totals(r).balance = openingBalance[r]
             /\ balanceWrites(lastOp') \subseteq {toString(openingBalance[r])}
             /\ isReady'[r] =>
                  /\ gun'[BalanceKey] = toString(openingBalance[r])
                  /\ Head(JSONparse(gun'[HistoryKey])).finalBalance
                       = Head(JSONparse(gun'[HistoryKey])).record.openingBalance
                  /\ gun[BalanceKey] = toString(openingBalance[r])
                       => gun'[BalanceKey] = gun[BalanceKey]]_vars

\* the day after a day closed with a balance of 2: the editor, holding no
\* entry and the carried-forward opening balance, has closed the day again
C32_Witness ==
  /\ dayEnds = 2 /\ lastOp.kind = "dayEnd" /\ lastOp.confirmed
  /\ isReady["r1"] /\ openingBalance["r1"] # 0
  /\ outPartyMap["r1"] = <<>> /\ mainEntryMap["r1"] = <<>>
  /\ lastOp.writes = <<Put(BalanceKey, toString(openingBalance["r1"])),
                       Put(HistoryKey, gun[HistoryKey])>>
  /\ Head(storedHistory).record.openingBalance = openingBalance["r1"]
  /\ Head(storedHistory).finalBalance = openingBalance["r1"]
  /\ Len(storedHistory) = 2

\* ------------------------------------------------ the balance in closed form
\* the balance of two collections with one out-party entry more
balanceWithOut(method, amount) ==
  LET id    == Len(aggOut) + 1
      entry == [id |-> id, index |-> id, method |-> method, amount |-> amount]
  IN  totalsOf(outPartyEntriesOf(onEntry(aggOut, JSONstringify(entry), id)),
               mainEntriesOf(aggMain), aggOpen).balance

\* the balance of two collections with the out-party entry under k removed
balanceWithoutOut(k) ==
  totalsOf(outPartyEntriesOf(onEntry(aggOut, Null, k)),
           mainEntriesOf(aggMain), aggOpen).balance

\* C33: for all inputs finalBalance = openingBalance + opCash + (cashIn of
\* all main entries) - (cashOut of all main entries) - (cashIn of CARD main
\* entries) - (cashIn of PAYPAL main entries); the out-party CARD and PAYPAL
\* amounts cancel, so adding or removing an out-party CARD or PAYPAL entry
\* leaves finalBalance as it is.
C33_OutPartyTransfersCancel ==
  /\ aggTotals.balance
       = aggOpen + RefOp(aggOut, "CASH") + RefIn(aggMain, PaymentMethod)
         - RefOut(aggMain) - RefIn(aggMain, {"CARD"}) - RefIn(aggMain, {"PAYPAL"})
  /\ \A f \in AggOutSubmits :
        f[1] \in {"CARD", "PAYPAL"} => balanceWithOut(f[1], f[2]) = aggTotals.balance
  /\ \A k \in Keys(aggOut) :
        Get(aggOut, k).method \in {"CARD", "PAYPAL"}
          => balanceWithoutOut(k) = aggTotals.balance

\* a carried-forward opening balance, an out-party CARD and an out-party
\* PAYPAL entry with amounts, and main entries paid by CARD and by PAYPAL
C33_Witness ==
  /\ aggOpen # 0
  /\ \E k, j \in Keys(aggOut) :
        /\ Get(aggOut, k).method = "CARD" /\ Get(aggOut, k).amount > 0
        /\ Get(aggOut, j).method = "PAYPAL" /\ Get(aggOut, j).amount > 0
  /\ \E k, j \in Keys(aggMain) :
        /\ Get(aggMain, k).method = "CARD" /\ Get(aggMain, k).cashIn > 0
        /\ Get(aggMain, j).method = "PAYPAL" /\ Get(aggMain, j).cashOut > 0

\* ------------------------------------- runs about the notifications
\* r1 is the editor, r2 a viewer, both in the session; the editor adds and
\* removes entries, its heartbeat fires once, and the store delivers every
\* notification to both in any order.  The run ends before the first decay
\* timeout is due.
NextNotify ==
  \/ \E r \in Replicas : Mount(r)
  \/ \E r \in Replicas : setDevice(r)
  \/ \E t \in NextDue : t <= NotifyTime /\ Advance(t)
  \/ \E r \in Replicas : pulseInterval(r)
  \/ \E r \in Replicas, n \in sent : Deliver(r, n)
  \/ \E f \in OutSubmits : nextId <= NotifyIds /\ addOutParty("r1", f[1], f[2])
  \/ \E id \in Ids :
        gun[[c |-> "outParty", id |-> id]] # Undefined /\ removeOutParty("r1", id)
  \/ \E f \in MainSubmits :
        nextId <= NotifyIds /\ addMainEntry("r1", f[1], f[2], f[3], f[4], f[5])
  \/ \E id \in Ids :
        gun[[c |-> "main", id |-> id]] # Undefined /\ removeMainEntry("r1", id)

SpecNotify == InitSync /\ [][NextNotify]_vars

\* what a replica holds under a key of a collection
entryUnder(r, k) ==
  IF Has(localMap(r, k), k.id) THEN Get(localMap(r, k), k.id) ELSE Undefined

\* the keys whose local entry on r is another after the step
changedKeys(r) == {k \in CollKeys : entryUnder(r, k)' # entryUnder(r, k)}

\* the step is the pulse handler of r
PulseDelivered(r) == lastPulse'[r] # lastPulse[r]

\* C34: notifications are isolated per key. Delivering a notification for
\* id k of one collection changes at most the entry under k in that
\* collection of the receiving replica, to what the notification carries,
\* and leaves every other id of that collection, the other collection, the
\* opening balance and the history as they are; a pulse notification sets
\* peerActive of the receiving replica and leaves collections, opening
\* balance, history and totals as they are.
C34_NotificationsIsolated ==
  [][\A r \in Replicas :
       /\ Cardinality(changedKeys(r)) <= 1
       /\ \A k \in changedKeys(r) :
            /\ Put(k, lastDelivered'[r][k]) \in sent
            /\ entryUnder(r, k)' = IF lastDelivered'[r][k] = Null THEN Undefined
                                   ELSE JSONparse(lastDelivered'[r][k])
            /\ UNCHANGED <<openingBalance, historyList, peerActive, timeouts,
                           lastPulse>>
            /\ \A q \in Replicas \ {r} : changedKeys(q) = {}
       /\ PulseDelivered(r) =>
            /\ peerActive'[r]
            /\ UNCHANGED <<outPartyMap, mainEntryMap, openingBalance, historyList>>
            /\ totals(r)' = totals(r)
            /\ \A q \in Replicas \ {r} : peerActive'[q] = peerActive[q]]_vars

\* the viewer holds one entry, has dropped another at its tombstone and has
\* observed a pulse
C34_Witness ==
  \E k, j \in CollKeys :
     /\ k # j
     /\ lastDelivered["r2"][k] = Null
     /\ \E n \in seen["r2"] : n.key = k /\ IsPayload(n.val)
     /\ IsPayload(lastDelivered["r2"][j])
     /\ entryUnder("r2", j) = JSONparse(lastDelivered["r2"][j])
     /\ peerActive["r2"] /\ lastPulse["r2"] = PulseEvery
     /\ totals("r2").totalCashIn # 0

\* --------------------------------------------------------- keys and ids
\* the map holds every key once, and under it an entry whose id is the key
KeyedById(m) ==
  /\ \A i \in DOMAIN m : m[i].val.id = m[i].key
  /\ \A i, j \in DOMAIN m : m[i].key = m[j].key => i = j

\* no two entries of the array have the same id
DistinctIds(s) == \A i, j \in DOMAIN s : s[i].id = s[j].id => i = j

\* C35: in every reachable state, with the editor the only writer, each
\* replica's out-party map and main-entry map hold under every key k an
\* entry whose id field is k, so that no two live entries of a collection
\* have the same id.
C35_KeyedConsistently ==
  \A r \in Replicas :
     /\ KeyedById(outPartyMap[r]) /\ KeyedById(mainEntryMap[r])
     /\ DistinctIds(outPartyEntries(r)) /\ DistinctIds(mainEntries(r))

\* the viewer and the editor each hold two out-party entries
C35_Witness ==
  /\ Len(outPartyMap["r2"]) = 2 /\ Len(outPartyMap["r1"]) = 2
  /\ Keys(outPartyMap["r2"]) = Keys(outPartyMap["r1"])
  /\ Cardinality(Keys(outPartyMap["r2"])) = 2

\* ======================================================================
\*        the whole-list variant (the collection kept as one array)
\* ======================================================================
\* what the out-party form submits in these runs
ListSubmits == {<<"CASH", 2>>, <<"CARD", 5>>}

wlCanEdit == wlDevice = "laptop"

\* persistData({ outPartyEntries: newEntries }): the whole array is stored
wlPersistData(newEntries) == wlStore' = JSONstringify(newEntries)

\* arr.filter(e => e.id !== id)
FilterNotId(s, id) == SelectSeq(s, LAMBDA e : e.id # id)

\* arr.map((e, idx) => ({ ...e, index: idx + 1 }))
Renumbered(s) == [i \in DOMAIN s |-> [s[i] EXCEPT !.index = i]]

wlAddOutParty(method, amount) ==
  /\ IF ~wlCanEdit
       THEN UNCHANGED <<wlOutPartyEntries, wlStore, wlNextId>>
       ELSE LET newEntries ==
                  Append(wlOutPartyEntries,
                         [id |-> wlNextId, index |-> Len(wlOutPartyEntries) + 1,
                          method |-> method, amount |-> amount])
            IN  /\ wlOutPartyEntries' = newEntries
                /\ wlPersistData(newEntries)
                /\ wlNextId' = wlNextId + 1
  /\ UNCHANGED <<ledgerVars, aggVars, wlDevice>>

\* a faulty removal that leaves the index of the remaining entries as it is
wlRemoveOutPartyKeepIndex(id) ==
  /\ IF ~wlCanEdit
       THEN UNCHANGED <<wlOutPartyEntries, wlStore>>
       ELSE LET newEntries == FilterNotId(wlOutPartyEntries, id)
            IN  /\ wlOutPartyEntries' = newEntries
                /\ wlPersistData(newEntries)
  /\ UNCHANGED <<ledgerVars, aggVars, wlDevice, wlNextId>>

wlRemoveOutParty(id) ==
  /\ IF ~wlCanEdit
       THEN UNCHANGED <<wlOutPartyEntries, wlStore>>
       ELSE LET newEntries == Renumbered(FilterNotId(wlOutPartyEntries, id))
            IN  /\ wlOutPartyEntries' = newEntries
                /\ wlPersistData(newEntries)
  /\ UNCHANGED <<ledgerVars, aggVars, wlDevice, wlNextId>>

\* the component after its first effect: the device is the detected one
InitList ==
  /\ InitLedger
  /\ hash = [r \in Replicas |-> ""]
  /\ userAgent = [r \in Replicas |-> IF r = "r1" THEN "desktop" ELSE "Android"]
  /\ syncId = [r \in Replicas |-> SessionId]
  /\ aggOut = <<>> /\ aggMain = <<>> /\ aggOpen = 0
  /\ wlDevice \in DeviceType
  /\ wlOutPartyEntries = <<>>
  /\ wlStore = Undefined
  /\ wlNextId = 1

\* the remove button of every entry that is shown, and the form
NextList ==
  \/ \E f \in ListSubmits : wlNextId <= ListIds /\ wlAddOutParty(f[1], f[2])
  \/ \E e \in Range(wlOutPartyEntries) : wlRemoveOutParty(e.id)

SpecList == InitList /\ [][NextList]_vars

\* the index values of an array are 1..n in list order
IndexedInOrder(s) == \A i \in DOMAIN s : s[i].index = i

\* C36: in the whole-list variant, after any sequence of local addOutParty
\* and removeOutParty calls, the index values of the live out-party entries
\* are exactly 1..n in list order, without gap or duplicate, in the
\* component's array and in the array it has persisted.
C36_IndexContiguous ==
  /\ IndexedInOrder(wlOutPartyEntries)
  /\ wlStore # Undefined =>
       /\ JSONparse(wlStore) = wlOutPartyEntries
       /\ IndexedInOrder(JSONparse(wlStore))

\* three entries were added, the first was removed, and a fourth was added:
\* the entries created second and third have been renumbered
C36_Witness ==
  /\ wlNextId = 5
  /\ Len(wlOutPartyEntries) = 3
  /\ wlOutPartyEntries[1].id = 2 /\ wlOutPartyEntries[1].index = 1
  /\ wlOutPartyEntries[2].id = 3
  /\ wlOutPartyEntries[3].id = 4 /\ wlOutPartyEntries[3].index = 3

====
